---- MODULE Spec2Model ----
(***************************************************************************)
(* EM27-GUI instrument control layer.                                      *)
(*                                                                         *)
(* Part 1: the AC (HVAC) Modbus controller, ACModbusController of          *)
(* controllers/ac_controller.py (ACController of AC_gui_simplified.py is   *)
(* the same code), together with the device it talks to.  A command        *)
(* thread runs connect / close / write_flags / write_setpoints_c one       *)
(* client transaction at a time; a polling thread runs read_sensor_c.      *)
(* Every client call (read_holding_registers, write_register) is two       *)
(* steps, its issue and its return, so that calls have a duration.         *)
(*                                                                         *)
(* Temperatures are integers counting 1/Q of a degree Celsius (binary      *)
(* fractions, which Python floats hold exactly); register values are       *)
(* integers counting 0.1 degree, as on the wire.                           *)
(***************************************************************************)
EXTENDS Integers, Sequences, FiniteSets, TLC

\* ---------------------------------------------------------------- bounds
\* Steps per degree Celsius of the temperatures the callers pass.
Q == 4
\* Operations with client calls (every one but close) that the command
\* thread starts in one run.
MaxOps == 2
\* Faults of the line (a call that gets no good answer) in one run.
MaxFaults == 2

\* ------------------------------------------------- register map, bits
REG_SET_COOL == 0
REG_SET_ALARM_HI == 1
REG_SET_ALARM_LO == 2
REG_SET_HEATER == 3
REG_ENABLE_FLAGS_READ == 4
REG_ENABLE_FLAGS_WRITE_CAND == <<4, 6>>
REG_READ_SENSOR == 12
BIT_INPUT1_INVERT == 8
BIT_NETWORK_SETPOINTS == 9
BIT_LOCK_KEYPAD == 10
BIT_TEMP_UNIT_FAHRENHEIT == 11
\* flags_write_addr = None
NoAddr == -1

\* SAFE_C_LIMITS, in 1/Q degree
SAFE_C_LIMITS ==
  [low  |-> <<(-20) * Q, 25 * Q>>,
   heat |-> <<(-5) * Q, 35 * Q>>,
   cool |-> <<20 * Q, 60 * Q>>,
   high |-> <<30 * Q, 80 * Q>>]

\* ------------------------------------------------------------- helpers
\* (flags >> b) & 1
Bit(w, b) == (w \div (2 ^ b)) % 2

clamp(v, lo, hi) == IF v < lo THEN lo ELSE IF v > hi THEN hi ELSE v

\* Python round(): n/d to the nearest integer, ties to the even one (d > 0).
RoundHalfEven(n, d) ==
  LET f == n \div d
      r == n % d
  IN  IF 2 * r < d THEN f
      ELSE IF 2 * r > d THEN f + 1
      ELSE IF f % 2 = 0 THEN f ELSE f + 1

\* int(round(float(val_c) * 10)), val_c given in 1/Q degree
c_to_reg(v) == RoundHalfEven(v * 10, Q)

_power_on_from_flags(flags) == Bit(flags, BIT_INPUT1_INVERT) = 0

_net_on_from_flags(flags) == Bit(flags, BIT_NETWORK_SETPOINTS) = 1

\* Mutant of FlagsWord: the power bit taken as active-high.
FlagsWordActiveHigh(power_on, net_on) ==
  (IF power_on THEN 2 ^ BIT_INPUT1_INVERT ELSE 0)
  + 2 ^ BIT_LOCK_KEYPAD
  + (IF net_on THEN 2 ^ BIT_NETWORK_SETPOINTS ELSE 0)

\* The word write_flags builds from 0.
FlagsWord(power_on, net_on) ==
  (IF ~power_on THEN 2 ^ BIT_INPUT1_INVERT ELSE 0)
  + 2 ^ BIT_LOCK_KEYPAD
  + (IF net_on THEN 2 ^ BIT_NETWORK_SETPOINTS ELSE 0)

\* Mutant of Quad: the high alarm is not clamped to its safe range.
QuadUnclampedHigh(heater_c, cooling_c) ==
  [lo   |-> clamp(heater_c - 2 * Q, SAFE_C_LIMITS.low[1], SAFE_C_LIMITS.low[2]),
   heat |-> clamp(heater_c, SAFE_C_LIMITS.heat[1], SAFE_C_LIMITS.heat[2]),
   cool |-> clamp(cooling_c, SAFE_C_LIMITS.cool[1], SAFE_C_LIMITS.cool[2]),
   hi   |-> cooling_c + 5 * Q]

\* write_setpoints_c, lines 247-254: the derived and clamped quad.
Quad(heater_c, cooling_c) ==
  [lo   |-> clamp(heater_c - 2 * Q, SAFE_C_LIMITS.low[1], SAFE_C_LIMITS.low[2]),
   heat |-> clamp(heater_c, SAFE_C_LIMITS.heat[1], SAFE_C_LIMITS.heat[2]),
   cool |-> clamp(cooling_c, SAFE_C_LIMITS.cool[1], SAFE_C_LIMITS.cool[2]),
   hi   |-> clamp(cooling_c + 5 * Q, SAFE_C_LIMITS.high[1], SAFE_C_LIMITS.high[2])]

\* Mutant of RangeOK: the order is checked without the 1 degree gap.
RangeOKNoGap(q) == q.lo < q.heat /\ q.heat < q.cool /\ q.cool < q.hi

\* write_setpoints_c, lines 257-258: order with 1 degree separation.
RangeOK(q) ==
  LET eps == 1 * Q
  IN  q.lo < q.heat - eps /\ q.heat < q.cool - eps /\ q.cool < q.hi - eps

\* Mutant of SetpointWrites: the list in the order of the register map.
SetpointWritesByAddress(heater_c, cooling_c) ==
  LET q == Quad(heater_c, cooling_c)
  IN  << <<REG_SET_COOL, c_to_reg(q.cool)>>,
         <<REG_SET_ALARM_HI, c_to_reg(q.hi)>>,
         <<REG_SET_ALARM_LO, c_to_reg(q.lo)>>,
         <<REG_SET_HEATER, c_to_reg(q.heat)>> >>

\* do_writes: the (address, value) list, in the order of the loop.
SetpointWrites(heater_c, cooling_c) ==
  LET q == Quad(heater_c, cooling_c)
  IN  << <<REG_SET_ALARM_LO, c_to_reg(q.lo)>>,
         <<REG_SET_HEATER, c_to_reg(q.heat)>>,
         <<REG_SET_COOL, c_to_reg(q.cool)>>,
         <<REG_SET_ALARM_HI, c_to_reg(q.hi)>> >>


\* ------------------------------------------------------ bounded inputs
\* heater_c and cooling_c the callers pass (the slider moves in half
\* degrees; a quarter degree makes c_to_reg round).
HeaterInputs == {(-10) * Q, 18 * Q, 18 * Q + 1, 21 * Q, 40 * Q}
CoolingInputs == {15 * Q, 22 * Q, 26 * Q + 1, 70 * Q}
\* A short list for the runs that vary the flags instead.
HeaterFew == {18 * Q, 30 * Q}
CoolingFew == {22 * Q}

\* Bits the device's enable-flags word may hold before this layer writes.
FlagBits == {3, BIT_INPUT1_INVERT, BIT_NETWORK_SETPOINTS, BIT_LOCK_KEYPAD,
             BIT_TEMP_UNIT_FAHRENHEIT}

RECURSIVE WordOf(_)
WordOf(S) == IF S = {} THEN 0
             ELSE LET b == CHOOSE x \in S : TRUE IN 2 ^ b + WordOf(S \ {b})

FlagWords == {WordOf(S) : S \in SUBSET FlagBits}
\* A short list for the runs that vary the setpoints instead.
FlagWordsFew == {WordOf({BIT_INPUT1_INVERT}),
                 WordOf({BIT_NETWORK_SETPOINTS, BIT_LOCK_KEYPAD})}

\* Setpoint registers of the device at power-up (0.1 degree), by address.
DevQuads ==
  { [r \in 0..3 |-> CASE r = REG_SET_ALARM_LO -> q[1] [] r = REG_SET_HEATER -> q[2]
                      [] r = REG_SET_COOL -> q[3] [] OTHER -> q[4]] :
    q \in {<<80, 100, 300, 350>>, <<280, 300, 450, 500>>} }

Threads == {"cmd", "poll"}

\* ----------------------------------------------------------------- state
VARIABLES
  client,            \* self.client: "none" (None), "unopened" (connect() gave False), "open"
  flags_write_addr,  \* self.flags_write_addr, NoAddr for None
  io_lock,           \* self.io_lock (RLock): [owner, depth]
  cmd,               \* the command thread: operation, position, locals
  poll,              \* the polling thread in read_sensor_c: [pc, result]
  inflight,          \* threads with a client call issued and not yet returned
  calls,             \* client calls returned so far to the command thread's operation
                     \* (site: where in the code; val: word written, or word read)
  devFlags,          \* device: enable-flags word
  devSet,            \* device: setpoint registers 0..3
  wrOK,              \* device: the addresses its firmware takes a flags write at
  nops,              \* operations started by the command thread
  nfaults            \* faults of the line so far

\* Part 2, the motor side (drivers/motor.py, controllers/motor_controller.py,
\* motor_cont.py); its code is modelled after the AC controller's, below.
VARIABLES
  drv,               \* drivers/motor.py: the serial port and the call in progress
                     \* or last made (modbus_crc16, a MotorDriver method, the probe)
  now,               \* time.time(), in ticks
  mc,                \* the thread that moves the motor: position and locals
  mlog,              \* driver calls and buffer drains of the current paced move
  win,               \* main_gui.py, MainWindow: its fields and the handler the
                     \* event loop is running
  ctl                \* two controller objects of one class, side by side: their
                     \* fields, the lock objects, one thread per object

acvars == <<client, flags_write_addr, io_lock, cmd, poll, inflight, calls,
            devFlags, devSet, wrOK, nops, nfaults>>

mvars == <<drv, now, mc, mlog, win, ctl>>

\* What the driver, the pacer and the cyclic run leave alone.
rest == <<client, flags_write_addr, io_lock, cmd, poll, inflight, calls,
          devFlags, devSet, wrOK, nops, nfaults, win, ctl>>

vars == <<client, flags_write_addr, io_lock, cmd, poll, inflight, calls,
          devFlags, devSet, wrOK, nops, nfaults, drv, now, mc, mlog, win,
          ctl>>

\* What the clock reads when a handler of the motor starts.  The code uses
\* time.time() in differences only, so the model reads the clock from the
\* start of the current handler, plus StartTime; remembered times move with
\* it (Rebase).
StartTime == 1000

\* The motor side before anything is asked of it: no driver call made, the
\* clock at StartTime, the moving thread not started.
DrvIdle ==
  [pc |-> "idle", op |-> "none", angle |-> 0, is_open |-> TRUE,
   data |-> <<>>, crc |-> 0, sent |-> <<>>, resp |-> <<>>, raised |-> FALSE,
   ok |-> FALSE, val |-> FALSE,
   wraps |-> 0, open0 |-> TRUE, escaped |-> FALSE,
   rs485_mode |-> TRUE, rts |-> FALSE, rts_tx |-> FALSE]

McIdle ==
  [fn |-> "none", pc |-> "idle", angle |-> 0, ok |-> FALSE, result |-> "none",
   driver |-> FALSE, last_move_time |-> 0, prev_move_t |-> -1,
   move_gap |-> -1, moves |-> 0,
   phase |-> "none", cycle |-> 0, start |-> 0, t2 |-> 0, polled |-> "none",
   stops |-> 0, stop_t |-> 0,
   stale |-> FALSE, lost |-> -1, lost_angle |-> 0, port |-> "none"]

\* self.current_position = None (main_gui.py line 91).
NoPosition == -1

\* MainWindow while __init__ has not yet made the motor tab (lines 88-93):
\* the fields, the handler running (pc, sent: its driver call has written
\* its request), and a record of what the current or last handler did.
WinIdle ==
  [phase |-> "init", handler |-> "none", pc |-> "idle", sent |-> FALSE,
   connected |-> FALSE, current_position |-> NoPosition,
   was_raining |-> FALSE, already_sent_mail |-> FALSE, open_btn |-> TRUE,
   angle |-> 0, ret |-> "none",
   wire |-> FALSE, overlap |-> FALSE,
   read |-> "none", prev |-> "none", last |-> "none",
   opens |-> 0, closes |-> 0, mails |-> 0, mail_ok |-> TRUE, moved |-> <<>>,
   pos0 |-> NoPosition, was0 |-> FALSE]

\* No controller object made yet.  Lock 0 is the RLock made when the class
\* body of the dataclass ACController is run (AC_gui_simplified.py line
\* 89); locks 1 and 2 are made by ACModbusController.__init__ (line 93).
CtlIdle ==
  [cls |-> "none",
   inst |-> [i \in {1, 2} |-> [io_lock |-> 0, flags_write_addr |-> NoAddr]],
   locks |-> [l \in {0, 1, 2} |-> [owner |-> 0, depth |-> 0]],
   th |-> [t \in {1, 2} |-> [pc |-> "idle", stored |-> NoAddr,
                             waited |-> FALSE]]]

MotorIdle ==
  /\ ctl = CtlIdle
  /\ drv = DrvIdle
  /\ now = StartTime
  /\ mc = McIdle
  /\ mlog = <<>>
  /\ win = WinIdle

LockFree == [owner |-> "free", depth |-> 0]

\* The command thread between operations.
\* The text "--.- C" (with the degree sign) of the temperature label
\* (ac_controller.py lines 464 and 570; AC_gui_simplified.py lines 382 and
\* 443).
Sentinel == <<"--.-">>

\* The polling side before a GUI is connected: no read made; the GUI's
\* flag, timer, stored temperature (in 0.1 degree) and label as its
\* constructor leaves them (ac_controller.py lines 433, 464, 498-500;
\* AC_gui_simplified.py lines 364 and 382).
PollIdle ==
  [pc |-> "idle", result |-> "none",
   gui |-> "none", connected |-> FALSE, timer |-> FALSE, latest_temp |-> 0,
   label |-> Sentinel, ticks |-> 0, last |-> "none", raw |-> 0,
   failed_before |-> FALSE, escaped |-> FALSE]

CmdIdle ==
  [op |-> "none", pc |-> "idle", result |-> "none", prevop |-> "none",
   power_on |-> FALSE, force_net |-> "None", ret |-> "top",
   word |-> 0, addrs |-> <<>>, i |-> 0,
   heater_c |-> 0, cooling_c |-> 0, k |-> 0,
   had_net |-> FALSE, had_power |-> FALSE, exc |-> FALSE, cur |-> 0,
   flags0 |-> 0, set0 |-> [r \in 0..3 |-> 0], fwa0 |-> NoAddr, client0 |-> "none",
   steady |-> TRUE, closes |-> 0, close_raised |-> FALSE]

\* A controller just constructed (lines 91-93), and the device it will
\* talk to: flags word in F, firmware write addresses in W, setpoints in D.
InitWith(F, W, D) ==
  /\ client = "none"
  /\ flags_write_addr = NoAddr
  /\ io_lock = LockFree
  /\ cmd = CmdIdle
  /\ poll = PollIdle
  /\ inflight = {}
  /\ calls = <<>>
  /\ devFlags \in F
  /\ devSet \in D
  /\ wrOK \in W
  /\ nops = 0
  /\ nfaults = 0
  /\ MotorIdle


\* ------------------------------------------- the command thread's code
\* Each operator below gives the thread's record (c) and flags_write_addr
\* (fwa) at its next client call, or at the operation's end.

\* The operation returns (res "ok"), returns False ("false") or raises.
Finish(c, fwa, res) ==
  [c |-> [c EXCEPT !.pc = "idle", !.result = res, !.ret = "top", !.word = 0,
                   !.addrs = <<>>, !.i = 0, !.k = 0, !.cur = 0],
   fwa |-> fwa]

\* write_flags is entered: its first client call is read_enable_flags.
EnterWriteFlags(c, fwa, power_on, force_net, ret) ==
  [c |-> [c EXCEPT !.pc = "wf_read", !.power_on = power_on,
                   !.force_net = force_net, !.ret = ret,
                   !.word = 0, !.addrs = <<>>, !.i = 0],
   fwa |-> fwa]

\* Mutant of FlagsAddrs: the candidates are probed on every call.
FlagsAddrsAlwaysProbe(fwa) == REG_ENABLE_FLAGS_WRITE_CAND

\* write_flags, line 233: the addresses the loop will try.
FlagsAddrs(fwa) ==
  IF fwa # NoAddr THEN <<fwa>> ELSE REG_ENABLE_FLAGS_WRITE_CAND

\* write_flags, lines 220-233, after read_enable_flags returned (ok, v).
AfterFlagsRead(c, fwa, ok, v) ==
  LET current == IF ok THEN v ELSE 0
      net_on == IF c.force_net = "None" THEN _net_on_from_flags(current)
                ELSE c.force_net = "True"
  IN  [c |-> [c EXCEPT !.pc = "wf_write", !.word = FlagsWord(c.power_on, net_on),
                       !.addrs = FlagsAddrs(fwa), !.i = 1],
       fwa |-> fwa]

\* Mutant of Finally: the bit is restored after a clean run only (no
\* try/finally around the writes).
FinallyOnSuccessOnly(c, fwa, exc) ==
  IF ~c.had_net /\ ~exc
  THEN EnterWriteFlags([c EXCEPT !.exc = exc, !.k = 0], fwa, c.had_power, "False",
                       "ws_restore")
  ELSE Finish([c EXCEPT !.exc = exc], fwa, IF exc THEN "raised" ELSE "ok")

\* write_setpoints_c, lines 277-280: the finally block.
Finally(c, fwa, exc) ==
  IF ~c.had_net
  THEN EnterWriteFlags([c EXCEPT !.exc = exc, !.k = 0], fwa, c.had_power, "False",
                       "ws_restore")
  ELSE Finish([c EXCEPT !.exc = exc], fwa, IF exc THEN "raised" ELSE "ok")

\* write_flags returns (ok) or raises (~ok) to the code that called it.
ReturnWriteFlags(c, fwa, ok) ==
  CASE c.ret = "top" -> Finish(c, fwa, IF ok THEN "ok" ELSE "raised")
    [] c.ret = "connect" -> Finish(c, fwa, "ok")
    [] c.ret = "ws_force" ->
         IF ok THEN [c |-> [c EXCEPT !.pc = "ws_write", !.k = 1, !.ret = "top",
                                     !.word = 0, !.addrs = <<>>, !.i = 0],
                     fwa |-> fwa]
         ELSE Finally(c, fwa, TRUE)
    [] c.ret = "ws_restore" -> Finish(c, fwa, IF c.exc THEN "raised" ELSE "ok")

\* Mutant of AfterFlagsWrite: the first failed write is raised at once.
AfterFlagsWriteGiveUp(c, fwa, ok) ==
  IF ok THEN ReturnWriteFlags(c, c.addrs[c.i], TRUE)
  ELSE ReturnWriteFlags(c, fwa, FALSE)

\* write_flags, lines 234-242, after the write to addrs[i] returned.
AfterFlagsWrite(c, fwa, ok) ==
  IF ok THEN ReturnWriteFlags(c, c.addrs[c.i], TRUE)
  ELSE IF c.i < Len(c.addrs) THEN [c |-> [c EXCEPT !.i = c.i + 1], fwa |-> fwa]
  ELSE ReturnWriteFlags(c, fwa, FALSE)

\* write_setpoints_c, lines 270-276, after read_enable_flags returned.
AfterSetpointsRead(c, fwa, ok, v) ==
  IF ~ok THEN Finish(c, fwa, "raised")
  ELSE LET c1 == [c EXCEPT !.had_net = _net_on_from_flags(v),
                           !.had_power = _power_on_from_flags(v)]
       IN  IF ~c1.had_net
           THEN EnterWriteFlags(c1, fwa, c1.had_power, "True", "ws_force")
           ELSE [c |-> [c1 EXCEPT !.pc = "ws_write", !.k = 1], fwa |-> fwa]

\* Mutant of AfterSetpointWrite: a failed write does not end the loop.
AfterSetpointWriteGoOn(c, fwa, ok) ==
  IF c.k < 4 THEN [c |-> [c EXCEPT !.k = c.k + 1], fwa |-> fwa]
  ELSE Finally(c, fwa, ~ok)

\* do_writes, after the k-th _write_reg returned.
AfterSetpointWrite(c, fwa, ok) ==
  IF ~ok THEN Finally(c, fwa, TRUE)
  ELSE IF c.k < 4 THEN [c |-> [c EXCEPT !.k = c.k + 1], fwa |-> fwa]
  ELSE Finally(c, fwa, FALSE)

\* _detect_flags_write_address, line 193, inside connect's suppress.
AfterDetectRead(c, fwa, ok, v) ==
  IF ok THEN [c |-> [c EXCEPT !.pc = "det_echo", !.cur = v, !.i = 1], fwa |-> fwa]
  ELSE [c |-> [c EXCEPT !.pc = "pol_read"], fwa |-> fwa]

\* _detect_flags_write_address, lines 194-198, after an echo write returned.
AfterEchoWrite(c, fwa, ok) ==
  IF ok
  THEN [c |-> [c EXCEPT !.pc = "pol_read", !.cur = 0, !.i = 0],
        fwa |-> REG_ENABLE_FLAGS_WRITE_CAND[c.i]]
  ELSE IF c.i < Len(REG_ENABLE_FLAGS_WRITE_CAND)
  THEN [c |-> [c EXCEPT !.i = c.i + 1], fwa |-> fwa]
  ELSE [c |-> [c EXCEPT !.pc = "pol_read", !.cur = 0, !.i = 0], fwa |-> NoAddr]

\* Mutant of AfterPolicyRead: the policy write switches the power on.
AfterPolicyReadPowerOn(c, fwa, ok, v) ==
  IF ~ok THEN Finish(c, fwa, "ok")
  ELSE EnterWriteFlags(c, fwa, TRUE,
                       IF _net_on_from_flags(v) THEN "True" ELSE "False", "connect")

\* connect, lines 117-122, after read_enable_flags returned.
AfterPolicyRead(c, fwa, ok, v) ==
  IF ~ok THEN Finish(c, fwa, "ok")
  ELSE EnterWriteFlags(c, fwa, _power_on_from_flags(v),
                       IF _net_on_from_flags(v) THEN "True" ELSE "False", "connect")

\* The client call the thread makes at its position.
Tx(c) ==
  CASE c.pc \in {"wf_read", "ws_read", "det_read", "pol_read"} ->
         [kind |-> "r", addr |-> REG_ENABLE_FLAGS_READ, val |-> 0]
    [] c.pc = "wf_write" -> [kind |-> "w", addr |-> c.addrs[c.i], val |-> c.word]
    [] c.pc = "det_echo" ->
         [kind |-> "w", addr |-> REG_ENABLE_FLAGS_WRITE_CAND[c.i], val |-> c.cur]
    [] c.pc = "ws_write" ->
         [kind |-> "w", addr |-> SetpointWrites(c.heater_c, c.cooling_c)[c.k][1],
          val |-> SetpointWrites(c.heater_c, c.cooling_c)[c.k][2]]

\* The thread goes on after its client call returned (ok, v) or raised.
Resume(c, fwa, ok, v) ==
  CASE c.pc = "wf_read" -> AfterFlagsRead(c, fwa, ok, v)
    [] c.pc = "wf_write" -> AfterFlagsWrite(c, fwa, ok)
    [] c.pc = "ws_read" -> AfterSetpointsRead(c, fwa, ok, v)
    [] c.pc = "ws_write" -> AfterSetpointWrite(c, fwa, ok)
    [] c.pc = "det_read" -> AfterDetectRead(c, fwa, ok, v)
    [] c.pc = "det_echo" -> AfterEchoWrite(c, fwa, ok)
    [] c.pc = "pol_read" -> AfterPolicyRead(c, fwa, ok, v)


\* -------------------------------------------------------------- actions
\* Mutant of CanAcquire: no lock around the client calls.
CanAcquireUnlocked(t) == TRUE

\* `with self.io_lock:` can be entered by thread t (RLock: free or its own).
CanAcquire(t) == io_lock.owner \in {"free", t}

\* io_lock after the command thread left _read_hregs / _write_reg with
\* record c: connect keeps its outer `with self.io_lock:` until it returns.
LockAfter(c) ==
  IF c.op = "connect" /\ c.pc # "idle" THEN [owner |-> "cmd", depth |-> 1]
  ELSE LockFree

\* A caller starts an operation: its record before the first statement.
Begin(op) ==
  [CmdIdle EXCEPT !.op = op, !.prevop = cmd.op, !.flags0 = devFlags,
                  !.set0 = devSet, !.fwa0 = flags_write_addr,
                  !.client0 = client]

\* The device's firmware serves client call tx: every read and setpoint
\* write, and a flags write at an address it takes one at.
DeviceAccepts(tx) ==
  tx.kind = "w" /\ tx.addr \in {4, 6} => tx.addr \in wrOK

\* write_flags(power_on, force_net) is called by the GUI.
StartWriteFlags(power_on, force_net) ==
  /\ cmd.pc = "idle"
  /\ nops < MaxOps
  /\ cmd' = EnterWriteFlags(Begin("write_flags"), flags_write_addr, power_on,
                            force_net, "top").c
  /\ calls' = <<>>
  /\ nops' = nops + 1
  /\ UNCHANGED <<nfaults, client, flags_write_addr, io_lock, poll, inflight, devFlags,
                 devSet, wrOK>>
  /\ UNCHANGED mvars

\* write_setpoints_c(heater_c, cooling_c), lines 245-259: derive, clamp,
\* check the order; raise ValueError or go on to read_enable_flags.
StartWriteSetpoints(heater_c, cooling_c) ==
  /\ cmd.pc = "idle"
  /\ nops < MaxOps
  /\ LET c0 == [Begin("write_setpoints_c") EXCEPT !.heater_c = heater_c,
                                                   !.cooling_c = cooling_c]
     IN  cmd' = IF RangeOK(Quad(heater_c, cooling_c))
                THEN [c0 EXCEPT !.pc = "ws_read"]
                ELSE Finish(c0, flags_write_addr, "raised").c
  /\ calls' = <<>>
  /\ nops' = nops + 1
  /\ UNCHANGED <<nfaults, client, flags_write_addr, io_lock, poll, inflight, devFlags,
                 devSet, wrOK>>
  /\ UNCHANGED mvars

\* connect(), lines 99-113: take the lock, close a stale client, make a new
\* one and open it; ok is what client.connect() returns.
StartConnect(ok) ==
  /\ cmd.pc = "idle"
  /\ nops < MaxOps
  /\ CanAcquire("cmd")
  /\ client' = IF ok THEN "open" ELSE "unopened"
  /\ cmd' = IF ok THEN [Begin("connect") EXCEPT !.pc = "det_read"]
            ELSE Finish(Begin("connect"), flags_write_addr, "false").c
  /\ io_lock' = LockAfter(cmd')
  /\ calls' = <<>>
  /\ nops' = nops + 1
  /\ UNCHANGED <<nfaults, flags_write_addr, poll, inflight, devFlags, devSet, wrOK>>
  /\ UNCHANGED mvars

\* Mutant of CloseClient: the client's close is called whatever
\* self.client holds, outside suppress(Exception).
CloseClientUnguarded(cl, raises) ==
  [client |-> "none", called |-> 1, res |-> IF raises THEN "raised" ELSE "ok"]

\* close(), lines 129-132: `if self.client:` calls the client's close
\* inside suppress(Exception), then drops the client.
CloseClient(cl, raises) ==
  IF cl # "none" THEN [client |-> "none", called |-> 1, res |-> "ok"]
  ELSE [client |-> cl, called |-> 0, res |-> "ok"]

\* close(), lines 127-132; raises: the client's own close raises.  closes
\* counts the calls of the client's close over the close() calls made in
\* a row, close_raised whether one of them raised.
Close(raises) ==
  /\ cmd.pc = "idle"
  /\ CanAcquire("cmd")
  /\ LET r == CloseClient(client, raises)
         row == cmd.op = "close"
     IN  /\ client' = r.client
         /\ cmd' = [Finish(Begin("close"), flags_write_addr, r.res).c EXCEPT
                     !.closes = (IF row THEN cmd.closes ELSE 0) + r.called,
                     !.close_raised = (row /\ cmd.close_raised)
                                      \/ (r.called = 1 /\ raises)]
  /\ calls' = <<>>
  /\ UNCHANGED <<nops, nfaults, flags_write_addr, io_lock, poll, inflight, devFlags, devSet,
                 wrOK>>
  /\ UNCHANGED mvars

\* _read_hregs / _write_reg, command thread: enter the lock and call the
\* client; with client None getattr finds no method and RuntimeError is
\* raised without any call.
CmdIssue ==
  /\ cmd.pc # "idle"
  /\ "cmd" \notin inflight
  /\ CanAcquire("cmd")
  /\ IF client = "none"
     THEN LET r == Resume(cmd, flags_write_addr, FALSE, 0)
          IN  /\ cmd' = r.c
              /\ flags_write_addr' = r.fwa
              /\ io_lock' = LockAfter(r.c)
              /\ UNCHANGED inflight
     ELSE /\ inflight' = inflight \cup {"cmd"}
          /\ io_lock' = [owner |-> "cmd", depth |-> io_lock.depth + 1]
          /\ UNCHANGED <<cmd, flags_write_addr>>
  /\ UNCHANGED <<nfaults, client, poll, calls, devFlags, devSet, wrOK, nops>>
  /\ UNCHANGED mvars

\* The client call of the command thread returns: the device has applied
\* a write it accepted; an error response, or a fault of the line (no or a
\* damaged answer, the write not applied), raises ModbusException.
CmdReturn(fault) ==
  /\ "cmd" \in inflight
  /\ fault => nfaults < MaxFaults /\ client = "open" /\ DeviceAccepts(Tx(cmd))
  /\ nfaults' = IF fault THEN nfaults + 1 ELSE nfaults
  /\ LET tx == Tx(cmd)
         ok == client = "open" /\ ~fault /\ DeviceAccepts(tx)
         r == Resume([cmd EXCEPT !.steady = cmd.steady /\ ~fault],
                     flags_write_addr, ok, devFlags)
     IN  /\ cmd' = r.c
         /\ flags_write_addr' = r.fwa
         /\ io_lock' = LockAfter(r.c)
         /\ calls' = Append(calls,
                [site |-> cmd.pc, kind |-> tx.kind, addr |-> tx.addr, ok |-> ok,
                 val |-> IF tx.kind = "w" THEN tx.val
                         ELSE IF ok THEN devFlags ELSE 0])
         /\ devFlags' = IF ok /\ tx.kind = "w" /\ tx.addr \in {4, 6}
                        THEN tx.val ELSE devFlags
         /\ devSet' = IF ok /\ tx.kind = "w" /\ tx.addr \in 0..3
                      THEN [devSet EXCEPT ![tx.addr] = tx.val] ELSE devSet
  /\ inflight' = inflight \ {"cmd"}
  /\ UNCHANGED <<client, poll, wrOK, nops>>
  /\ UNCHANGED mvars

\* read_sensor_c on the polling thread: _read_hregs enters the lock and
\* calls the client (RuntimeError without a call when client is None).
PollIssue ==
  /\ poll.pc = "idle"
  /\ CanAcquire("poll")
  /\ IF client = "none"
     THEN /\ poll' = [poll EXCEPT !.pc = "idle", !.result = "raised"]
          /\ UNCHANGED <<inflight, io_lock>>
     ELSE /\ poll' = [poll EXCEPT !.pc = "inflight", !.result = "none"]
          /\ inflight' = inflight \cup {"poll"}
          /\ io_lock' = [owner |-> "poll", depth |-> io_lock.depth + 1]
  /\ UNCHANGED <<nfaults, client, flags_write_addr, cmd, calls, devFlags, devSet, wrOK, nops>>
  /\ UNCHANGED mvars

\* The polling thread's client call returns and the lock is left.
PollReturn(fault) ==
  /\ "poll" \in inflight
  /\ fault => nfaults < MaxFaults /\ client = "open"
  /\ nfaults' = IF fault THEN nfaults + 1 ELSE nfaults
  /\ poll' = [poll EXCEPT !.pc = "idle",
                          !.result = IF client = "open" /\ ~fault THEN "ok"
                                     ELSE "raised"]
  /\ inflight' = inflight \ {"poll"}
  /\ io_lock' = LockFree
  /\ UNCHANGED <<client, flags_write_addr, cmd, calls, devFlags, devSet, wrOK, nops>>
  /\ UNCHANGED mvars

\* The command thread's steps, with heater_c from H and cooling_c from C.
CmdStep(H, C) ==
  \/ \E p \in BOOLEAN, f \in {"None", "True", "False"} : StartWriteFlags(p, f)
  \/ \E h \in H, c \in C : StartWriteSetpoints(h, c)
  \/ \E ok \in BOOLEAN : StartConnect(ok)
  \/ \E raises \in BOOLEAN : Close(raises)
  \/ CmdIssue
  \/ \E fault \in BOOLEAN : CmdReturn(fault)

\* One thread (the GUI calls every operation from its event loop), every
\* flags word and firmware, a short list of setpoints.
Init == InitWith(FlagWords, SUBSET {4, 6}, {CHOOSE d \in DevQuads : d[REG_SET_HEATER] = 100})

Next == CmdStep(HeaterFew, CoolingFew)

Spec == Init /\ [][Next]_vars

\* One thread, every setpoint input, a short list of flags words.
InitSetpoints == InitWith(FlagWordsFew, {{4, 6}}, DevQuads)

NextSetpoints == CmdStep(HeaterInputs, CoolingInputs)

SpecSetpoints == InitSetpoints /\ [][NextSetpoints]_vars

\* Two threads on one controller: commands and a concurrent poll.
NextConc ==
  \/ CmdStep(HeaterFew, CoolingFew)
  \/ PollIssue
  \/ \E fault \in BOOLEAN : PollReturn(fault)

SpecConc == InitWith(FlagWordsFew, {{4, 6}, {6}}, DevQuads) /\ [][NextConc]_vars


\* ====================================================================
\* Part 2: the motor.  MotorDriver and MotorConnectThread of
\* drivers/motor.py build request frames and judge the bytes that come
\* back; bytes are integers 0..255, frames and responses sequences of them.

\* ------------------------------------------------- protocol constants
SLAVE_ID == 1
TRACKER_SPEED == 1000
TRACKER_CURRENT == 1000

\* ---------------------------------------------------------- CRC helper
\* a ^ b on 16-bit values.
Xor[a \in 0..65535, b \in 0..65535] ==
  IF a = 0 THEN b
  ELSE IF b = 0 THEN a
  ELSE ((a + b) % 2) + 2 * Xor[a \div 2, b \div 2]

\* lines 21-26, n passes of the inner loop: shift right by one and, if a
\* one fell out, xor with 0xA001 (40961).
CrcShifts[crc \in 0..65535, n \in 0..8] ==
  IF n = 0 THEN crc
  ELSE CrcShifts[IF crc % 2 = 1 THEN Xor[crc \div 2, 40961] ELSE crc \div 2,
                 n - 1]

\* lines 19-26, the outer loop over the bytes, from crc = init: run is crc
\* after the loop's turns for the bytes lo..hi, one turn (lo = hi) being
\* crc ^= b and the eight shifts; a longer stretch is run as its first half
\* and then its second.
CrcLoop(init, data) ==
  LET run[crc \in 0..65535, lo \in 1..Len(data) + 1, hi \in 0..Len(data)] ==
        IF lo > hi THEN crc
        ELSE IF lo = hi THEN CrcShifts[Xor[crc, data[lo]], 8]
        ELSE run[run[crc, lo, (lo + hi) \div 2], ((lo + hi) \div 2) + 1, hi]
  IN  run[init, 1, Len(data)]

\* Mutant of modbus_crc16: the register starts at 0 (CRC-16/ARC).
modbus_crc16_from_zero(data) == CrcLoop(0, data)

\* modbus_crc16, lines 17-27: the register starts at 0xFFFF (65535).
modbus_crc16(data) == CrcLoop(65535, data)

\* int.to_bytes(2, 'little') of a value in 0..0xFFFF.
to_bytes_2_little(v) == <<v % 256, v \div 256>>

\* int.to_bytes(4, 'big', signed=True) of a value in -2^31..2^31-1: the
\* bytes of the two's complement (w is v + 2^31 for a negative v).
to_bytes_4_big_signed(v) ==
  LET w == IF v < 0 THEN v + 2147483647 + 1 ELSE v
      top == IF v < 0 THEN 128 + w \div 16777216 ELSE w \div 16777216
  IN  <<top, (w \div 65536) % 256, (w \div 256) % 256, w % 256>>

\* A frame as a Modbus device forms it: the body and its CRC, low byte
\* first.
WithCrc(body) == body \o to_bytes_2_little(modbus_crc16(body))

\* ------------------------------------------------------ request frames
\* MotorConnectThread.run, lines 45-49: read 2 registers at 0x0058.
ProbeRequest == <<SLAVE_ID, 3, 0, 88, 0, 2>>

\* move_to, lines 116-133: header and payload.
MoveToRequest(angle) ==
  LET angle_b == to_bytes_4_big_signed(angle)
      speed_b == to_bytes_4_big_signed(TRACKER_SPEED)
      mid_b == <<0, 15, 31, 64, 0, 15, 31, 64>>
      curr_b == to_bytes_4_big_signed(TRACKER_CURRENT)
      end_b == <<0, 0, 0, 1>>
      payload == <<0, 0, 0, 0, 0, 0, 0, 1>> \o angle_b \o speed_b \o mid_b
                 \o curr_b \o end_b
      header == <<SLAVE_ID, 16, 0, 88, 0, 16, 32>>
  IN  header \o payload

\* clear_alarm, lines 197-201: write coil 0x0801 ON.
ClearAlarmRequest == <<SLAVE_ID, 5, 8, 1, 255, 0>>

\* stop, lines 235-239: write 0 to register 0x0088.
StopRequest == <<SLAVE_ID, 6, 0, 136, 0, 0>>

\* is_busy, lines 273-277: read register 0x0074.
IsBusyRequest == <<SLAVE_ID, 3, 0, 116, 0, 1>>

\* check_rain_status, lines 315-319: read register 0x00D5.
RainRequest == <<SLAVE_ID, 3, 0, 213, 0, 1>>

\* The request an operation builds, before its checksum.
Request(op, angle) ==
  CASE op = "move_to" -> MoveToRequest(angle)
    [] op = "clear_alarm" -> ClearAlarmRequest
    [] op = "stop" -> StopRequest
    [] op = "is_busy" -> IsBusyRequest
    [] op = "check_rain_status" -> RainRequest
    [] op = "probe" -> ProbeRequest

\* packet = req + crc (lines 134-135, 50-51, 202-203, 240-241, 278-279,
\* 320-321): the frame written to the port.
Packet(req, crc) == req \o to_bytes_2_little(crc)

\* ------------------------------------------------- judging a response
\* bytes.hex(): two digits per byte, high digit first (digits as 0..15).
Hex(resp) ==
  [i \in 1..2 * Len(resp) |->
     IF i % 2 = 1 THEN resp[(i + 1) \div 2] \div 16 ELSE resp[i \div 2] % 16]

\* str.startswith
StartsWith(s, prefix) ==
  Len(s) >= Len(prefix) /\ SubSeq(s, 1, Len(prefix)) = prefix

\* ser.read(n): at most n of the bytes that arrive before the timeout.
ReadUpTo(rxb, n) == IF Len(rxb) > n THEN SubSeq(rxb, 1, n) ELSE rxb

\* Mutant of MoveToAck: the standard acknowledgement alone.
MoveToAckStandardOnly(resp) ==
  Len(resp) >= 3 /\ resp[1] = SLAVE_ID /\ resp[2] = 16

\* move_to, lines 177-179: the standard acknowledgement, or a response
\* whose hex text starts with '7e25' or with '0190044dc3'.
MoveToAck(resp) ==
  \/ Len(resp) >= 3 /\ resp[1] = SLAVE_ID /\ resp[2] = 16
  \/ StartsWith(Hex(resp), <<7, 14, 2, 5>>)
  \/ StartsWith(Hex(resp), <<0, 1, 9, 0, 0, 4, 4, 13, 12, 3>>)

\* MotorConnectThread.run, lines 68-70.
ProbeAck(resp) ==
  \/ Len(resp) >= 5 /\ resp[1] = SLAVE_ID /\ resp[2] = 3
  \/ StartsWith(Hex(resp), <<7, 14, 2, 5>>)
  \/ StartsWith(Hex(resp), <<0, 1, 9, 0, 0, 4, 4, 13, 12, 3>>)

\* clear_alarm, lines 216-219, and stop, lines 254-257.
WriteAck(resp) == Len(resp) >= 4

\* is_busy, line 293, and check_rain_status, line 348.
ReadAck(resp) == Len(resp) >= 5 /\ resp[1] = SLAVE_ID /\ resp[2] = 3

\* is_busy, lines 295-297: bit 0 of the register value.
IsMoving(resp) == (resp[4] * 256 + resp[5]) % 2 = 1

\* Mutant of IsRaining: any bit of the low byte.
IsRainingAnyBit(resp) == resp[5] # 0

\* check_rain_status, line 364: bit 2 of the value's low byte.
IsRaining(resp) == (resp[5] \div 4) % 2 = 1


\* ------------------------------------------------------ bounded inputs
\* Angles: OPEN_ANGLE and CLOSE_ANGLE of motor_cont.py, the ends of the
\* GUI's validator range, and a positive one.
Angles == {-2250, -2100, -30, 90}

\* Angles given to move_to itself, as <<wraps, angle>> for the Python int
\* wraps * 2^32 + angle: Angles, the ends of the signed 32-bit range, and
\* the first angles beyond them (2^31 and -2^31 - 1).
MoveToAngles ==
  {<<0, a>> : a \in Angles \cup {2147483647, -2147483647 - 1}}
  \cup {<<1, -2147483647 - 1>>, <<-1, 2147483647>>}

\* Bytes that arrive at the port after a request: nothing; answers to the
\* write-multiple (whole, with a damaged CRC, cut short, from another
\* unit), the two out-of-spec answers and near misses of them; answers to
\* the register reads (moving, idle, raining, every bit but the rain bit,
\* every bit, damaged CRC, another unit,
\* an exception response, an overlong one); echoes of the single writes, an
\* exception response to them, and noise.
Responses ==
  { <<>>,
    WithCrc(<<1, 16, 0, 88, 0, 16>>),
    <<1, 16, 0, 88, 0, 16, 0, 0>>,
    <<1, 16>>,
    <<1, 16, 0>>,
    WithCrc(<<2, 16, 0, 88, 0, 16>>),
    <<1, 144, 4, 77, 195>>,
    <<1, 144, 4, 77>>,
    <<126, 37, 0>>,
    <<126>>,
    <<7, 226, 80>>,
    WithCrc(<<1, 3, 2, 0, 1>>),
    WithCrc(<<1, 3, 2, 0, 0>>),
    <<1, 3, 2, 0, 1, 0, 0>>,
    WithCrc(<<1, 3, 2, 0, 4>>),
    WithCrc(<<1, 3, 2, 255, 251>>),
    WithCrc(<<1, 3, 2, 255, 255>>),
    WithCrc(<<2, 3, 2, 0, 1>>),
    WithCrc(<<1, 131, 2>>),
    WithCrc(<<1, 3, 4, 0, 0, 0, 1>>),
    WithCrc(<<1, 6, 0, 136, 0, 0>>),
    WithCrc(<<1, 5, 8, 1, 255, 0>>),
    WithCrc(<<1, 133, 1>>),
    <<255, 255, 255, 255>> }

\* Arguments of modbus_crc16 beside the driver's own requests: every
\* sequence of up to MaxLen bytes of CrcBytes, the text "123456789" and
\* the payloads of the two responses quoted at lines 360-361.
MaxLen == 3

CrcBytes == {0, 1, 128, 255}

CrcInputs ==
  UNION {[1..n -> CrcBytes] : n \in 0..MaxLen}
  \cup { <<49, 50, 51, 52, 53, 54, 55, 56, 57>>,
         <<1, 3, 2, 0, 0>>, <<1, 3, 2, 0, 4>> }

DriverOps == {"move_to", "clear_alarm", "stop", "is_busy", "check_rain_status",
              "probe"}

\* modbus_crc16(packet) (lines 134, 50, 202, 240, 278, 320) of every
\* request the driver is asked to build here; the function depends on the
\* request alone, so it is worked out once for each.
RequestCrc[op \in DriverOps, angle \in {0} \cup {a[2] : a \in MoveToAngles}] ==
  modbus_crc16(Request(op, angle))

\* ------------------------------------------------ the driver's actions
\* modbus_crc16(data), called on its own; the function reads nothing but
\* its argument, so it is called here on a driver not yet used.
Crc16(data) ==
  /\ drv.pc = "idle" /\ drv.op \in {"none", "modbus_crc16"}
  /\ drv' = [DrvIdle EXCEPT !.is_open = drv.is_open, !.op = "modbus_crc16",
                            !.data = data, !.crc = modbus_crc16(data)]
  /\ UNCHANGED <<now, mc, mlog>>
  /\ UNCHANGED rest

\* MotorDriver(serial_obj), lines 102-103, on a port set up as
\* MotorController._on_connect does (lines 157-173): open, buffers
\* cleared, and either the port object has the attribute rs485_mode and
\* the settings for automatic direction switching are stored in it, or it
\* has not and RTS is set low.
MotorDriverInit(rs485_mode) ==
  /\ drv.pc = "idle"
  /\ drv' = [DrvIdle EXCEPT !.op = "__init__", !.rs485_mode = rs485_mode]
  /\ UNCHANGED <<now, mc, mlog>>
  /\ UNCHANGED rest

\* is_busy, lines 268-269: with the port closed it returns False at once.
ReturnsAtOnce(op, is_open) == op = "is_busy" /\ ~is_open

\* Mutant of Caught: move_to alone has its body in try/except.
CaughtMoveToOnly(op) == op = "move_to"

\* `except Exception` around the whole body of move_to (lines 183-184),
\* clear_alarm (220-222), stop (258-260), is_busy (299-301),
\* check_rain_status (371-372) and the probe (74-76): an exception of a port
\* call ends in a returned failure.
Caught(op) ==
  op \in {"move_to", "clear_alarm", "stop", "is_busy", "check_rain_status",
          "probe"}

\* Mutant of to_bytes_overflows: the angle is cut to its low 32 bits.
to_bytes_truncates(wraps) == FALSE

\* angle.to_bytes(4, 'big', signed=True), line 116, raises OverflowError
\* for an angle outside -2^31..2^31-1.  A Python int is held as
\* wraps * 2^32 + angle with angle in -2^31..2^31-1.
to_bytes_overflows(wraps) == wraps # 0

\* move_to, lines 143-145 and 151-153: RTS is raised before the write and
\* dropped after it if the port object has no attribute rs485_mode; no
\* other method touches RTS.
ManualRts(op, rs485_mode) == op = "move_to" /\ ~rs485_mode

\* How a port call can fail before the frame is out: ser.open() raises
\* (closed port only), a buffer reset raises, ser.write raises.
SendFaults == {"none", "open", "reset", "write"}

\* A driver method, or the probe, up to its write: a closed port is opened
\* (lines 112-113, 192-193, 230-231, 311-312, 55), the request is built with
\* its CRC, the buffers are cleared and the frame is written, with RTS
\* raised around the write where the method does so.  The angle of move_to
\* is wraps * 2^32 + angle.  fault: a port call raises, and the method
\* reports failure (Caught).  open0 is is_open on entry, rts_tx the level
\* of RTS while the frame was written (on a port with rs485_mode the port
\* raises it itself).
DriverSend(op, wraps, angle, fault) ==
  /\ drv.pc = "idle"
  /\ fault = "open" => ~drv.is_open
  /\ LET d0 == [DrvIdle EXCEPT !.is_open = drv.is_open, !.op = op,
                               !.angle = angle, !.wraps = wraps,
                               !.open0 = drv.is_open,
                               !.rs485_mode = drv.rs485_mode, !.rts = drv.rts]
         manual == ManualRts(op, drv.rs485_mode)
         Failed(d) == IF Caught(op) THEN [d EXCEPT !.raised = TRUE]
                      ELSE [d EXCEPT !.raised = TRUE, !.escaped = TRUE]
         req == Request(op, angle)
         crc == RequestCrc[op, angle]
     IN  drv' = IF ReturnsAtOnce(op, drv.is_open) THEN d0
                ELSE IF fault = "open" THEN Failed(d0)
                ELSE IF op = "move_to" /\ to_bytes_overflows(wraps)
                THEN Failed([d0 EXCEPT !.is_open = TRUE])
                ELSE IF fault = "reset" THEN Failed([d0 EXCEPT !.is_open = TRUE])
                ELSE IF fault = "write"
                THEN Failed([d0 EXCEPT !.is_open = TRUE,
                                       !.rts = manual \/ drv.rts])
                ELSE [d0 EXCEPT !.is_open = TRUE, !.pc = "sent",
                                !.data = req, !.crc = crc,
                                !.sent = Packet(req, crc),
                                !.rts_tx = drv.rs485_mode \/ manual \/ drv.rts,
                                !.rts = ~manual /\ drv.rts]
  /\ UNCHANGED <<now, mc, mlog>>
  /\ UNCHANGED rest

\* The bytes a method has collected when it stops reading: move_to (lines
\* 160-167) and check_rain_status (lines 336-342) take all that has
\* arrived; the others read at most 8 bytes (lines 216, 254, 292), the
\* probe 5 (line 63).
Collected(op, rxb) ==
  CASE op \in {"move_to", "check_rain_status"} -> rxb
    [] op = "probe" -> ReadUpTo(rxb, 5)
    [] OTHER -> ReadUpTo(rxb, 8)

\* Whether a method takes the collected bytes as the device's answer.
Accepted(op, resp) ==
  CASE op = "move_to" -> MoveToAck(resp)
    [] op \in {"clear_alarm", "stop"} -> WriteAck(resp)
    [] op \in {"is_busy", "check_rain_status"} -> ReadAck(resp)
    [] op = "probe" -> ProbeAck(resp)

\* What the method returns beside success: is_busy's answer, the rain flag.
Value(op, resp) ==
  CASE op = "is_busy" -> ReadAck(resp) /\ IsMoving(resp)
    [] op = "check_rain_status" -> ReadAck(resp) /\ IsRaining(resp)
    [] OTHER -> FALSE

\* The method reads what the device sent (rxb) and returns; fault: a call
\* of the port raises after these bytes were read, and the method reports
\* failure.
DriverReceive(rxb, fault) ==
  /\ drv.pc = "sent"
  /\ LET resp == Collected(drv.op, rxb)
     IN  drv' = IF fault
                THEN [drv EXCEPT !.pc = "idle", !.raised = TRUE,
                                 !.resp = resp, !.escaped = ~Caught(drv.op)]
                ELSE [drv EXCEPT !.pc = "idle", !.resp = resp,
                                 !.ok = Accepted(drv.op, resp),
                                 !.val = Value(drv.op, resp)]
  /\ UNCHANGED <<now, mc, mlog>>
  /\ UNCHANGED rest

\* The port is closed under the driver (MotorController._on_connect, lines
\* 155-156; run_motor_cycle's finally, lines 182-183).
PortClose ==
  /\ drv.pc = "idle" /\ drv.is_open
  /\ drv' = [drv EXCEPT !.is_open = FALSE]
  /\ UNCHANGED <<now, mc, mlog>>
  /\ UNCHANGED rest

\* The AC side while the motor side is looked at: a controller just made.
ACIdle == InitWith({256}, {{4, 6}}, {CHOOSE d \in DevQuads : d[REG_SET_HEATER] = 100})

\* The driver alone: every call into drivers/motor.py, one at a time.
InitFrames == ACIdle

NextFrames ==
  \/ \E data \in CrcInputs : Crc16(data)
  \/ \E rs485_mode \in BOOLEAN : MotorDriverInit(rs485_mode)
  \/ \E a \in MoveToAngles, fault \in SendFaults :
       DriverSend("move_to", a[1], a[2], fault)
  \/ \E op \in DriverOps \ {"move_to"}, fault \in SendFaults :
       DriverSend(op, 0, 0, fault)
  \/ \E rxb \in Responses, fault \in BOOLEAN : DriverReceive(rxb, fault)
  \/ PortClose

SpecFrames == InitFrames /\ [][NextFrames]_vars


\* ====================================================================
\* Part 3: pacing the motor.  MotorController._paced_move of
\* controllers/motor_controller.py (the GUI) and _paced_move,
\* _budget_wait_or_stop and run_motor_cycle of motor_cont.py (the cyclic
\* run).  Time is counted in ticks of 10 ms; a driver call takes the time
\* of the sleeps and reads in its code.

\* ------------------------------------------------------------- bounds
\* Paced moves started in one run of the GUI.
MaxMoves == 2
\* Open/close cycles of run_motor_cycle (CYCLE_COUNT of the script is 4000).
MaxCycles == 1

\* ------------------------------------------------- durations, in ticks
MIN_MOVE_INTERVAL == 50
INTER_CMD_GAP == 12
ALARM_SETTLE == 25
CLEAR_ALARM_SLEEP == 20
PER_MOVE_BUDGET == 500
POLL_INTERVAL == 12
GRACE_PERIOD == 120
POST_STOP_SETTLE == 35
SERIAL_TIMEOUT == 150
PRE_WRITE_SETTLE == 5
POST_WRITE_SETTLE == 10
READ_DEADLINE == 50

\* Mutant of Advance: a clock that starts again every MIN_MOVE_INTERVAL
\* ticks, so before the budget of a move is over.
AdvanceAround(t, d) == StartTime + ((t - StartTime + d) % MIN_MOVE_INTERVAL)

\* time.time() after d ticks of sleeping or of waiting for the port.
Advance(t, d) == t + d

\* ------------------------------------------- driver calls, as the pacer
\* sees them: the result and the time the call took.  fault "before_write":
\* a call of the port raises before the frame is out; "after_write": a read
\* raises; else rxb are the bytes the device sends back.
MoveToCall(rxb, fault) ==
  CASE fault = "before_write" -> [ok |-> FALSE, sent |-> FALSE, dur |-> 0]
    [] fault = "after_write" ->
         [ok |-> FALSE, sent |-> TRUE, dur |-> PRE_WRITE_SETTLE + POST_WRITE_SETTLE]
    [] OTHER ->
         [ok |-> MoveToAck(rxb), sent |-> TRUE,
          dur |-> PRE_WRITE_SETTLE + POST_WRITE_SETTLE
                  + (IF Len(rxb) >= 8 THEN 0 ELSE READ_DEADLINE)]

\* clear_alarm and stop: read(8) returns when 8 bytes are there, or at
\* the port's timeout.
WriteCall(rxb, fault) ==
  IF fault # "none"
  THEN [ok |-> FALSE, sent |-> fault = "after_write",
        dur |-> IF fault = "after_write"
                THEN PRE_WRITE_SETTLE + POST_WRITE_SETTLE ELSE 0]
  ELSE [ok |-> WriteAck(ReadUpTo(rxb, 8)), sent |-> TRUE,
        dur |-> PRE_WRITE_SETTLE + POST_WRITE_SETTLE
                + (IF Len(rxb) >= 8 THEN 0 ELSE SERIAL_TIMEOUT)]

\* Mutant of IsBusyCall: a failed read counts as still moving.
IsBusyCallFailureBusy(rxb, fault) ==
  IF fault # "none"
  THEN [val |-> TRUE,
        dur |-> IF fault = "after_write"
                THEN PRE_WRITE_SETTLE + POST_WRITE_SETTLE ELSE 0]
  ELSE [val |-> ~ReadAck(ReadUpTo(rxb, 8)) \/ IsMoving(ReadUpTo(rxb, 8)),
        dur |-> PRE_WRITE_SETTLE + POST_WRITE_SETTLE
                + (IF Len(rxb) >= 8 THEN 0 ELSE SERIAL_TIMEOUT)]

\* is_busy: False on any failure (lines 298-301).
IsBusyCall(rxb, fault) ==
  IF fault # "none"
  THEN [val |-> FALSE,
        dur |-> IF fault = "after_write"
                THEN PRE_WRITE_SETTLE + POST_WRITE_SETTLE ELSE 0]
  ELSE [val |-> Value("is_busy", ReadUpTo(rxb, 8)),
        dur |-> PRE_WRITE_SETTLE + POST_WRITE_SETTLE
                + (IF Len(rxb) >= 8 THEN 0 ELSE SERIAL_TIMEOUT)]

Faults == {"none", "before_write", "after_write"}

\* What the device answers to a move: nothing, the acknowledgement, the
\* first three bytes of it.
MoveReplies == { <<>>, WithCrc(<<1, 16, 0, 88, 0, 16>>), <<1, 16, 0>> }

\* ... to clear_alarm and stop: nothing, the echo.
ClearReplies == { <<>>, WithCrc(<<1, 5, 8, 1, 255, 0>>) }

StopReplies == { <<>>, WithCrc(<<1, 6, 0, 136, 0, 0>>) }

\* ... to is_busy: moving (7 bytes, and 9 bytes of a two-register answer),
\* idle, nothing.
BusyReplies ==
  { WithCrc(<<1, 3, 2, 0, 1>>), WithCrc(<<1, 3, 4, 0, 1, 0, 0>>),
    WithCrc(<<1, 3, 2, 0, 0>>), <<>> }

\* Ticks between the end of one GUI handler and the next click.
Idles == {0, 20, 70}

GuiMove == "MotorController._paced_move"
ContMove == "motor_cont._paced_move"

\* A record of one call, for mlog: what it returned, whether it wrote its
\* frame, for move_to the angle.
Call(name, ok, sent) ==
  [call |-> name, ok |-> ok, sent |-> sent, angle |-> 0,
   t |-> 0, end |-> 0, dirty |-> FALSE, left |-> FALSE]

\* One call of a paced move, with the time it began (t) and returned (end)
\* and whether unread bytes were in the input buffer when it returned.
TimedCall(name, ok, sent, t, end, left) ==
  [Call(name, ok, sent) EXCEPT !.t = t, !.end = end, !.left = left]

\* Unread bytes of a response in the input buffer after a driver call that
\* reads at most n bytes: the bytes beyond n; all of them if a port call
\* raised after the write; after a call that raised before its write, what
\* was there before (stale).
Leftover(stale, rxb, fault, n) ==
  CASE fault = "before_write" -> stale
    [] fault = "after_write" -> rxb # <<>>
    [] OTHER -> Len(rxb) > n

\* self.ser.reset_input_buffer() at the head of a driver method (lines
\* 137, 206, 244, 282, 324): what was in the buffer is gone.
ResetInput(stale) == FALSE

CallsOf(name) == SelectSeq(mlog, LAMBDA e : e.call = name)


\* ---------------------------------------------------- the paced move
\* The moving thread is inside the cyclic run's code (its own _paced_move
\* or run_motor_cycle).
InCont == mc.fn \in {ContMove, "run_motor_cycle"}

\* MotorController._on_connect, lines 145-213 (connect(), lines 248-255,
\* calls it when not connected): on success a new driver, stop and
\* clear_alarm with their settles, a drain; on failure no driver.
OnConnect(ok, rxb) ==
  /\ mc.fn \in {"none", GuiMove, "connect"} /\ mc.pc = "idle" /\ ~mc.driver
  /\ LET st == WriteCall(rxb, "none")
         t1 == Advance(Advance(now, st.dur), 20)
         t2 == Advance(Advance(t1, st.dur), 20)
     IN  IF ok
         THEN /\ mc' = [mc EXCEPT !.fn = "connect", !.driver = TRUE,
                                  !.result = "ok", !.stale = FALSE]
              /\ mlog' = << Call("stop", st.ok, TRUE),
                            Call("clear_alarm", st.ok, TRUE),
                            Call("drain", TRUE, FALSE) >>
              /\ now' = Advance(t2, 10)
         ELSE /\ mc' = [mc EXCEPT !.fn = "connect", !.driver = FALSE,
                                  !.result = "failed"]
              /\ mlog' = <<>>
              /\ UNCHANGED now
  /\ UNCHANGED drv
  /\ UNCHANGED rest

\* MotorController._paced_move, lines 103-107: the remainder of the
\* minimum interval since the last move.
PaceWait(t, last) ==
  LET time_since_last_move == t - last
  IN  IF time_since_last_move < MIN_MOVE_INTERVAL
      THEN MIN_MOVE_INTERVAL - time_since_last_move ELSE 0

\* A paced move up to its first drain.  The GUI's (lines 99-110) returns
\* at once without a driver, waits the remainder of the minimum interval
\* and then the inter-command gap; the cyclic run's (line 109) sleeps the
\* gap.  idle: ticks since the thread's last handler ended.
EnterPacedMove(m, angle, t) ==
  IF m.fn = GuiMove /\ ~m.driver
  THEN [m |-> [m EXCEPT !.angle = angle, !.ok = FALSE,
                        !.result = "no_driver", !.pc = "idle"],
        now |-> t]
  ELSE [m |-> [m EXCEPT !.angle = angle, !.ok = FALSE, !.result = "none",
                        !.pc = "drain1"],
        now |-> IF m.fn = GuiMove
                THEN Advance(Advance(t, PaceWait(t, m.last_move_time)), INTER_CMD_GAP)
                ELSE Advance(t, INTER_CMD_GAP)]

\* The remembered times when the clock's zero moves forward by shift; a
\* time more than StartTime back is "long ago" (0, as _last_move_time is
\* at first, line 87).
Rebase(m, shift) ==
  [m EXCEPT !.last_move_time = IF @ > shift THEN @ - shift ELSE 0,
            !.prev_move_t = IF @ = -1 THEN -1
                            ELSE IF @ > shift THEN @ - shift ELSE 0]

PacedMoveStart(fn, angle, idle) ==
  /\ mc.fn \in {"none", "connect", fn} /\ mc.pc = "idle"
  /\ mc.moves < MaxMoves
  /\ LET m0 == Rebase(mc, Advance(now, idle) - StartTime)
         e == EnterPacedMove([m0 EXCEPT !.fn = fn, !.moves = mc.moves + 1,
                                        !.move_gap = -1,
                                        !.driver = mc.driver \/ fn = ContMove],
                             angle, StartTime)
     IN  mc' = e.m /\ now' = e.now
  /\ mlog' = <<>>
  /\ UNCHANGED drv
  /\ UNCHANGED rest

\* reset_input_buffer / reset_output_buffer (lines 113-117 and 129-134;
\* _drain_serial, motor_cont.py lines 110 and 117-118); an exception is
\* swallowed.  The second drain is followed by the inter-command gap.
Drain(fault) ==
  /\ mc.pc \in {"drain1", "drain2"}
  /\ mlog' = Append(mlog, TimedCall("drain", ~fault, FALSE, now, now,
                                      IF fault THEN mc.stale ELSE FALSE))
  /\ mc' = [mc EXCEPT !.pc = IF mc.pc = "drain1" THEN "move1" ELSE "move2",
                      !.stale = IF fault THEN mc.stale ELSE ResetInput(mc.stale)]
  /\ now' = IF mc.pc = "drain2" THEN Advance(now, INTER_CMD_GAP) ELSE now
  /\ UNCHANGED drv
  /\ UNCHANGED rest

\* Mutant of AfterMoveTo: a failed first move is retried at once.
AfterMoveToRetryAtOnce(pc, ok) == IF pc = "move1" /\ ~ok THEN "move2" ELSE "end"

\* Mutant of AfterMoveTo: the alarm is cleared after every first move.
AfterMoveToAlwaysClear(pc, ok) == IF pc = "move1" THEN "clear" ELSE "end"

\* Lines 120-123 and 136 (motor_cont.py lines 112-119): after the first
\* move_to, clear the alarm and retry if it failed; after the second, end.
AfterMoveTo(pc, ok) == IF pc = "move1" /\ ~ok THEN "clear" ELSE "end"

\* self._driver.move_to(angle) / md.move_to(target_deg).
MoveTo(rxb, fault) ==
  /\ mc.pc \in {"move1", "move2"}
  /\ LET r == MoveToCall(rxb, fault)
         left == Leftover(mc.stale, rxb, fault, Len(rxb))
     IN  /\ mlog' = Append(mlog,
                           [TimedCall("move_to", r.ok, r.sent, now,
                                      Advance(now, r.dur), left) EXCEPT
                              !.angle = mc.angle,
                              !.dirty = r.sent /\ ResetInput(mc.stale)])
         /\ mc' = [mc EXCEPT !.ok = r.ok, !.prev_move_t = now,
                             !.stale = left,
                             !.move_gap = IF mc.prev_move_t = -1 THEN -1
                                          ELSE now - mc.prev_move_t,
                             !.pc = AfterMoveTo(mc.pc, r.ok)]
         /\ now' = Advance(now, r.dur)
  /\ UNCHANGED drv
  /\ UNCHANGED rest

\* clear_alarm() and the settle after it: lines 126-127; in the cyclic run
\* _try_clear_alarm (motor_cont.py lines 56-60) with its own sleep, then
\* line 116.
ClearAlarm(rxb, fault) ==
  /\ mc.pc = "clear"
  /\ LET r == WriteCall(rxb, fault)
         left == Leftover(mc.stale, rxb, fault, 8)
     IN  /\ mlog' = Append(mlog, TimedCall("clear_alarm", r.ok, r.sent, now,
                                           Advance(now, r.dur), left))
         /\ now' = Advance(Advance(now, r.dur),
                           IF InCont THEN CLEAR_ALARM_SLEEP + ALARM_SETTLE
                           ELSE ALARM_SETTLE)
         /\ mc' = [mc EXCEPT !.pc = "drain2", !.stale = left]
  /\ UNCHANGED drv
  /\ UNCHANGED rest

\* The end of a paced move called on its own: the GUI's records the time
\* (line 141); both return the last move_to's result.
PacedMoveEnd ==
  /\ mc.pc = "end" /\ mc.fn \in {GuiMove, ContMove}
  /\ mc' = [mc EXCEPT !.pc = "idle",
                      !.result = IF mc.ok THEN "ok" ELSE "failed",
                      !.last_move_time = IF mc.fn = GuiMove THEN now
                                         ELSE mc.last_move_time]
  /\ UNCHANGED <<drv, now, mlog>>
  /\ UNCHANGED rest

\* Paced moves, one at a time: the GUI's (after connecting) or the cyclic
\* run's _paced_move.
NextPacer ==
  \/ \E ok \in BOOLEAN, rxb \in StopReplies : OnConnect(ok, rxb)
  \/ \E fn \in {GuiMove, ContMove}, angle \in {-2100, -30}, idle \in Idles :
       PacedMoveStart(fn, angle, idle)
  \/ \E fault \in BOOLEAN : Drain(fault)
  \/ \E rxb \in MoveReplies, fault \in Faults : MoveTo(rxb, fault)
  \/ \E rxb \in ClearReplies, fault \in Faults : ClearAlarm(rxb, fault)
  \/ PacedMoveEnd

SpecPacer == ACIdle /\ [][NextPacer]_vars


\* ------------------------------------------------------ the cyclic run
OPEN_ANGLE == -2250
CLOSE_ANGLE == -30

\* md.is_busy() as _budget_wait_or_stop sees it: MotorDriver's value, or,
\* fault "raise", an exception (the loops provide for one, lines 80-81 and
\* 98-99).
PollFaults == Faults \cup {"raise"}

IsBusyPoll(rxb, fault) ==
  IF fault = "raise" THEN [raised |-> TRUE, val |-> FALSE, dur |-> 0]
  ELSE [raised |-> FALSE, val |-> IsBusyCall(rxb, fault).val,
        dur |-> IsBusyCall(rxb, fault).dur]

\* is_busy() gave False without an answer of the motor to go by: a port
\* call raised (lines 299-301) or what came back is no valid response
\* (line 298).
PollFailed(rxb, fault) ==
  fault \in {"before_write", "after_write"}
  \/ (fault = "none" /\ ~ReadAck(ReadUpTo(rxb, 8)))

\* Mutant of WithinBudget: the budget is one poll interval.
WithinBudgetOnePoll(t, start) == (t - start) < POLL_INTERVAL

\* The loop test of line 75, with budget_sec = PER_MOVE_BUDGET_SEC.
WithinBudget(t, start) == (t - start) < PER_MOVE_BUDGET

\* The thread is inside _budget_wait_or_stop.
InWait == mc.pc \in {"wait_poll", "wait_stop", "grace_poll", "settle"}

\* Mutant of ClosePort: the port is left as it is.
ClosePortNever(port) == port

\* run_motor_cycle's finally, lines 181-184: the port, if one was made
\* and is open, is closed.
ClosePort(port) == IF port = "open" THEN "closed" ELSE port

\* Mutant of GoesOn: the run goes on whatever the move returned.
GoesOnAlways(phase, ok) == TRUE

\* run_motor_cycle after _paced_move: the homing move is waited for
\* whatever it returned (lines 145-147); an open or close that failed ends
\* the loop (`if not ok: ... break`, lines 153-159 and 165-171).
GoesOn(phase, ok) == phase = "home" \/ ok

\* run_motor_cycle, lines 122-141: the port is opened (open_ok: without a
\* SerialException; with one, lines 177-184 end the run), then stop(),
\* _try_clear_alarm, and the homing move is next.
CycleStart(open_ok, rxb) ==
  /\ mc.fn = "none" /\ mc.pc = "idle"
  /\ LET st == WriteCall(rxb, "none")
     IN  IF open_ok
         THEN /\ mc' = [mc EXCEPT !.fn = "run_motor_cycle", !.driver = TRUE,
                                  !.pc = "call_move", !.phase = "home",
                                  !.stale = Leftover(FALSE, rxb, "none", 8),
                                  !.port = "open"]
              /\ mlog' = << Call("drain", TRUE, FALSE), Call("stop", st.ok, TRUE),
                            Call("clear_alarm", st.ok, TRUE) >>
              /\ now' = Advance(Advance(Advance(now, st.dur), st.dur),
                                CLEAR_ALARM_SLEEP)
         ELSE /\ mc' = [mc EXCEPT !.fn = "run_motor_cycle", !.pc = "finished",
                                  !.result = "serial_error",
                                  !.port = ClosePort("none")]
              /\ UNCHANGED <<mlog, now>>
  /\ UNCHANGED drv
  /\ UNCHANGED rest

\* Lines 145, 151 and 163: _paced_move(md, sp, CLOSE_ANGLE / OPEN_ANGLE),
\* up to its first drain.
CycleMove ==
  /\ mc.fn = "run_motor_cycle" /\ mc.pc = "call_move"
  /\ LET m0 == Rebase(mc, now - StartTime)
         e == EnterPacedMove([m0 EXCEPT !.move_gap = -1, !.start = 0, !.t2 = 0,
                                        !.polled = "none", !.stops = 0,
                                        !.stop_t = 0],
                             IF mc.phase = "open" THEN OPEN_ANGLE ELSE CLOSE_ANGLE,
                             StartTime)
     IN  mc' = e.m /\ now' = e.now
  /\ mlog' = <<>>
  /\ UNCHANGED drv
  /\ UNCHANGED rest

\* After _paced_move: the homing move is waited for whatever it returned
\* (lines 145-147); a failed open or close is given up (lines 153-159 and
\* 165-171); else _budget_wait_or_stop starts (line 72).  The record of the
\* paced move's calls ends with it.
CycleAfterMove ==
  /\ mc.fn = "run_motor_cycle" /\ mc.pc = "end"
  /\ LET m0 == [mc EXCEPT !.result = IF mc.ok THEN "ok" ELSE "failed",
                          !.prev_move_t = -1, !.move_gap = -1,
                          !.lost = -1, !.lost_angle = 0]
     IN  IF GoesOn(mc.phase, mc.ok)
         THEN /\ mc' = [m0 EXCEPT !.pc = "wait_poll", !.start = StartTime]
              /\ now' = StartTime
         ELSE /\ mc' = [m0 EXCEPT !.pc = "abort"]
              /\ UNCHANGED now
  /\ mlog' = <<>>
  /\ UNCHANGED drv
  /\ UNCHANGED rest

\* Lines 155-159 (167-171) and 177-184: _try_clear_alarm, stop, break, the
\* port is closed.
Abort(rxb, fault) ==
  /\ mc.pc = "abort"
  /\ LET r == WriteCall(rxb, fault)
     IN  /\ now' = Advance(Advance(Advance(now, r.dur), CLEAR_ALARM_SLEEP), r.dur)
         /\ mlog' = mlog \o << Call("clear_alarm", r.ok, r.sent),
                                Call("stop", r.ok, r.sent) >>
  /\ mc' = [mc EXCEPT !.pc = "finished", !.result = "aborted",
                      !.stale = Leftover(mc.stale, rxb, fault, 8),
                      !.port = ClosePort(mc.port)]
  /\ UNCHANGED drv
  /\ UNCHANGED rest

\* Lines 75-82: one turn of the budget loop.
WaitPoll(rxb, fault) ==
  /\ mc.pc = "wait_poll"
  /\ IF WithinBudget(now, mc.start)
     THEN LET r == IsBusyPoll(rxb, fault)
              m0 == [mc EXCEPT
                       !.stale = IF fault = "raise" THEN mc.stale
                                 ELSE Leftover(mc.stale, rxb, fault, 8),
                       !.lost = IF mc.polled = "none" /\ PollFailed(rxb, fault)
                                THEN 0 ELSE mc.lost,
                       !.lost_angle = IF mc.polled = "none" /\ PollFailed(rxb, fault)
                                      THEN mc.angle ELSE mc.lost_angle]
          IN  IF r.raised
              THEN /\ mc' = [m0 EXCEPT !.pc = "wait_stop", !.polled = "raised"]
                   /\ now' = Advance(now, r.dur)
              ELSE IF ~r.val
              THEN /\ mc' = [m0 EXCEPT !.pc = "wait_ret", !.polled = "idle"]
                   /\ now' = Advance(now, r.dur)
              ELSE /\ mc' = [m0 EXCEPT !.polled = "busy"]
                   /\ now' = Advance(Advance(now, r.dur), POLL_INTERVAL)
     ELSE /\ mc' = [mc EXCEPT !.pc = "wait_stop"]
          /\ UNCHANGED now
  /\ UNCHANGED <<drv, mlog>>
  /\ UNCHANGED rest

\* Lines 87-94: md.stop(), whatever it returns or raises; t2.
WaitStop(rxb, fault) ==
  /\ mc.pc = "wait_stop"
  /\ LET r == WriteCall(rxb, fault)
     IN  /\ mc' = [mc EXCEPT !.pc = "grace_poll", !.stops = mc.stops + 1,
                             !.stop_t = now, !.t2 = Advance(now, r.dur),
                             !.stale = IF fault = "raise" THEN mc.stale
                                       ELSE Leftover(mc.stale, rxb, fault, 8),
                             !.lost = IF mc.lost >= 0 THEN mc.lost + 1 ELSE -1]
         /\ now' = Advance(now, r.dur)
  /\ UNCHANGED <<drv, mlog>>
  /\ UNCHANGED rest

\* Lines 95-101: one turn of the grace loop.
GracePoll(rxb, fault) ==
  /\ mc.pc = "grace_poll"
  /\ IF (now - mc.t2) < GRACE_PERIOD
     THEN LET r == IsBusyPoll(rxb, fault)
              m0 == [mc EXCEPT
                       !.stale = IF fault = "raise" THEN mc.stale
                                 ELSE Leftover(mc.stale, rxb, fault, 8)]
          IN  IF r.raised \/ ~r.val
              THEN /\ mc' = [m0 EXCEPT !.pc = "settle"]
                   /\ now' = Advance(now, r.dur)
              ELSE /\ now' = Advance(Advance(now, r.dur), POLL_INTERVAL)
                   /\ mc' = m0
     ELSE /\ mc' = [mc EXCEPT !.pc = "settle"]
          /\ UNCHANGED now
  /\ UNCHANGED <<drv, mlog>>
  /\ UNCHANGED rest

\* The return of _budget_wait_or_stop (line 78, or line 103 after the
\* settle) and what run_motor_cycle does next: lines 149-175, with MaxCycles
\* for CYCLE_COUNT, then lines 181-184.
WaitReturn ==
  /\ mc.pc \in {"wait_ret", "settle"}
  /\ now' = IF mc.pc = "settle" THEN Advance(now, POST_STOP_SETTLE) ELSE now
  /\ mc' = CASE mc.phase = "home" ->
                  [mc EXCEPT !.pc = "call_move", !.phase = "open", !.cycle = 1]
             [] mc.phase = "open" ->
                  [mc EXCEPT !.pc = "call_move", !.phase = "close"]
             [] mc.phase = "close" /\ mc.cycle < MaxCycles ->
                  [mc EXCEPT !.pc = "call_move", !.phase = "open",
                             !.cycle = mc.cycle + 1]
             [] OTHER -> [mc EXCEPT !.pc = "finished", !.result = "done",
                                    !.port = ClosePort(mc.port)]
  /\ UNCHANGED <<drv, mlog>>
  /\ UNCHANGED rest

\* run_motor_cycle, the script's one thread.
NextCycle ==
  \/ \E open_ok \in BOOLEAN, rxb \in StopReplies : CycleStart(open_ok, rxb)
  \/ CycleMove
  \/ \E fault \in BOOLEAN : Drain(fault)
  \/ \E rxb \in MoveReplies, fault \in Faults : MoveTo(rxb, fault)
  \/ \E rxb \in ClearReplies, fault \in Faults : ClearAlarm(rxb, fault)
  \/ CycleAfterMove
  \/ \E rxb \in ClearReplies, fault \in Faults : Abort(rxb, fault)
  \/ \E rxb \in BusyReplies, fault \in PollFaults : WaitPoll(rxb, fault)
  \/ \E rxb \in StopReplies, fault \in PollFaults : WaitStop(rxb, fault)
  \/ \E rxb \in BusyReplies, fault \in PollFaults : GracePoll(rxb, fault)
  \/ WaitReturn

SpecCycle == ACIdle /\ [][NextCycle]_vars

\* The script runs in one thread, which goes on with its next statement
\* when the one before has returned.
SpecCycleFair == SpecCycle /\ WF_vars(NextCycle)


\* ====================================================================
\* Part 4: the temperature poll of the GUIs.  ACController (the Qt tab of
\* controllers/ac_controller.py) reads the sensor from a QTimer every 5 s,
\* App (AC_gui_simplified.py) from a Tk `after` job it renews itself.  Both
\* run on the GUI's one thread, a handler at a time.  Temperatures are in
\* 0.1 degree.

\* ------------------------------------------------------------- bounds
\* Timer firings looked at.
MaxTicks == 3

\* Values of the sensor register: 21.5, 0.0, -10.0 and -0.1 degrees.
SensorRaws == {215, 0, 65436, 65535}

\* ------------------------------------------------------------ helpers
\* to_signed_16, lines 64-65.
to_signed_16(u) == IF u >= 32768 THEN u - 65536 ELSE u

\* reg_to_val, lines 67-68, in 0.1 degree.
reg_to_val(raw) == to_signed_16(raw)

\* f"{temp:.1f}" of a value in 0.1 degree: sign, whole part, one decimal.
Format1f(t) ==
  LET a == IF t < 0 THEN -t ELSE t
  IN  <<IF t < 0 THEN "-" ELSE "", a \div 10, a % 10>>

\* Mutant of OnReadError: a failed read also stops the poll.
OnReadErrorStopsPoll(p) ==
  [p EXCEPT !.label = Sentinel, !.last = "failed", !.failed_before = TRUE,
            !.timer = FALSE]

\* The except branch of _update_temp (lines 569-571) and of
\* _do_refresh_loop (AC_gui_simplified.py lines 442-443): the sentinel text.
OnReadError(p) ==
  [p EXCEPT !.label = Sentinel, !.last = "failed", !.failed_before = TRUE]

\* _update_temp, lines 561-571: nothing unless connected; read_sensor_c,
\* which returns reg_to_val(raw) or raises (client None, or the read
\* failed: fault).
_update_temp(p, cl, raw, fault) ==
  IF ~p.connected THEN [p EXCEPT !.last = "skipped"]
  ELSE IF cl = "open" /\ ~fault
  THEN [p EXCEPT !.latest_temp = reg_to_val(raw),
                 !.label = Format1f(reg_to_val(raw)),
                 !.last = "ok", !.raw = raw]
  ELSE OnReadError(p)

\* _do_refresh_loop, AC_gui_simplified.py lines 436-444: with client None
\* it returns and the job is not renewed; else the label is set from the
\* read or to the sentinel and the job is renewed (line 444).
_do_refresh_loop(p, cl, raw, fault) ==
  IF cl = "none" THEN [p EXCEPT !.last = "skipped", !.timer = FALSE]
  ELSE IF cl = "open" /\ ~fault
  THEN [p EXCEPT !.label = Format1f(reg_to_val(raw)), !.last = "ok",
                 !.raw = raw, !.timer = TRUE]
  ELSE [OnReadError(p) EXCEPT !.timer = TRUE]

\* ------------------------------------------------------------ actions
\* connect_controller (lines 522-530) and App.connect (lines 408-409) while
\* not connected: the controller's connect() begins.
GuiStartConnect(ok) ==
  /\ ~poll.connected /\ ~poll.timer
  /\ StartConnect(ok)

\* connect_controller after connect() returned True, lines 536-551: the
\* flags are read, the timer is started, connected is set and _update_temp
\* is called once.
ConnectController(raw, fault) ==
  /\ poll.gui \in {"none", "ACController"}
  /\ ~poll.connected /\ ~poll.timer
  /\ cmd.op = "connect" /\ cmd.pc = "idle" /\ cmd.result = "ok"
  /\ poll' = _update_temp([poll EXCEPT !.gui = "ACController", !.timer = TRUE,
                                       !.connected = TRUE],
                          client, raw, fault)
  /\ UNCHANGED <<client, flags_write_addr, io_lock, cmd, inflight, calls, devFlags,
                 devSet, wrOK, nops, nfaults>>
  /\ UNCHANGED mvars

\* App.connect after connect() returned True, lines 410-417: the flags are
\* read and _start_auto_refresh runs the first _do_refresh_loop.
AppConnect(raw, fault) ==
  /\ poll.gui \in {"none", "App"}
  /\ ~poll.timer
  /\ cmd.op = "connect" /\ cmd.pc = "idle" /\ cmd.result = "ok"
  /\ poll' = _do_refresh_loop([poll EXCEPT !.gui = "App"], client, raw, fault)
  /\ UNCHANGED <<client, flags_write_addr, io_lock, cmd, inflight, calls, devFlags,
                 devSet, wrOK, nops, nfaults>>
  /\ UNCHANGED mvars

\* The QTimer fires: _update_temp.
UpdateTemp(raw, fault) ==
  /\ poll.gui = "ACController" /\ poll.timer /\ cmd.pc = "idle"
  /\ poll.ticks < MaxTicks
  /\ poll' = [_update_temp(poll, client, raw, fault) EXCEPT
                !.ticks = poll.ticks + 1]
  /\ UNCHANGED <<client, flags_write_addr, io_lock, cmd, inflight, calls, devFlags,
                 devSet, wrOK, nops, nfaults>>
  /\ UNCHANGED mvars

\* The `after` job runs: _do_refresh_loop.
DoRefreshLoop(raw, fault) ==
  /\ poll.gui = "App" /\ poll.timer /\ cmd.pc = "idle"
  /\ poll.ticks < MaxTicks
  /\ poll' = [_do_refresh_loop(poll, client, raw, fault) EXCEPT
                !.ticks = poll.ticks + 1]
  /\ UNCHANGED <<client, flags_write_addr, io_lock, cmd, inflight, calls, devFlags,
                 devSet, wrOK, nops, nfaults>>
  /\ UNCHANGED mvars

\* connect_controller while connected, lines 509-520, and App.disconnect,
\* lines 423-426: the timer or job is stopped and the controller closed.
GuiDisconnect(raises) ==
  /\ poll.gui # "none" /\ cmd.pc = "idle"
  /\ IF poll.gui = "ACController" THEN poll.connected ELSE poll.timer
  /\ LET r == CloseClient(client, raises)
     IN  /\ client' = r.client
         /\ cmd' = [Finish(Begin("close"), flags_write_addr, r.res).c EXCEPT
                     !.closes = r.called,
                     !.close_raised = (r.called = 1 /\ raises)]
  /\ poll' = [poll EXCEPT !.connected = FALSE, !.timer = FALSE]
  /\ calls' = <<>>
  /\ UNCHANGED <<flags_write_addr, io_lock, inflight, devFlags, devSet, wrOK, nops,
                 nfaults>>
  /\ UNCHANGED mvars

\* One GUI, connected and disconnected by its user, and its poll.
NextPoll ==
  \/ \E ok \in BOOLEAN : GuiStartConnect(ok)
  \/ CmdIssue
  \/ \E fault \in BOOLEAN : CmdReturn(fault)
  \/ \E raw \in SensorRaws, fault \in BOOLEAN : ConnectController(raw, fault)
  \/ \E raw \in SensorRaws, fault \in BOOLEAN : AppConnect(raw, fault)
  \/ \E raw \in SensorRaws, fault \in BOOLEAN : UpdateTemp(raw, fault)
  \/ \E raw \in SensorRaws, fault \in BOOLEAN : DoRefreshLoop(raw, fault)
  \/ \E raises \in BOOLEAN : GuiDisconnect(raises)

SpecPoll == ACIdle /\ [][NextPoll]_vars


\* ====================================================================
\* Part 5.  main_gui.py, MainWindow: the rain timer, the Open, Close, Move
\* and Connect buttons, and the driver calls their handlers make through
\* controllers/motor_controller.py.  A step is a port write, a port read
\* with the handler's code up to its next driver call, or the SMTP send.
\* The pacing sleeps and buffer drains of _paced_move are in Part 3.
\* ====================================================================

\* ------------------------------------------------------------ helpers
\* What the device answers to the rain read: raining (0x0004), dry, every
\* bit but the rain bit, nothing.
RainReplies ==
  { WithCrc(<<1, 3, 2, 0, 4>>), WithCrc(<<1, 3, 2, 0, 0>>),
    WithCrc(<<1, 3, 2, 255, 251>>), <<>> }

\* The angles the Move button can send (the validator's range), and the
\* texts open_motor and close_motor put into the angle field.
ClickAngles == {-2100, -1000, -30}

\* check_rain_status's message, motor.py lines 366-372, word by word.
RainMessage(rxb, fault) ==
  IF fault # "none" THEN <<"Error", "reading", "rain", "status:", "e">>
  ELSE IF ~ReadAck(rxb) THEN <<"Invalid", "response:", "hex">>
  ELSE IF IsRaining(rxb) THEN <<"Rain", "status:", "Raining">>
  ELSE <<"Rain", "status:", "Not", "raining">>

\* `"Raining" in message`: the search is case-sensitive.
InMessage(word, message) == \E i \in 1..Len(message) : message[i] = word

\* Mutant of RainingNow: a failed read counts as rain.
RainingNowOrFailed(success, message) == ~success \/ InMessage("Raining", message)

\* main_gui.py lines 118 and 726: `success and "Raining" in message`.
RainingNow(success, message) == success /\ InMessage("Raining", message)

\* Mutant of ShouldClose: the cover is closed unless it was commanded shut.
ShouldCloseUnlessShut(current_position) == current_position # 0

\* Line 754: `if self.current_position == 90`.
ShouldClose(current_position) == current_position = 90

\* Mutant of ShouldOpen: every dry tick opens.
ShouldOpenEveryDryTick(was_raining) == TRUE

\* Line 777: `if self.was_raining`.
ShouldOpen(was_raining) == was_raining

\* Mutant of MailDone: the mail counts as sent only when the send worked.
MailDoneIfSent(ok) == ok

\* Lines 758-760 with 698-708: send_rain_email catches what the send
\* raises, and already_sent_mail is set after it whatever happened.
MailDone(ok) == TRUE

\* Mutant of LoopFree: a handler is started while another is running.
LoopFreeThreads(w) == w.phase = "loop"

\* The timers and buttons are connected to slots of the window (lines
\* 108-113, 599, 621; motor_controller.py lines 66, 75) and run by the one
\* event loop of line 847: a slot starts when the one before has returned.
LoopFree(w) == w.phase = "loop" /\ w.pc = "idle"

\* A handler starts: the record of the last one is cleared.
StartHandler(w, handler) ==
  [w EXCEPT !.handler = handler, !.sent = FALSE, !.ret = "none", !.angle = 0,
            !.read = "none", !.opens = 0, !.closes = 0, !.mails = 0,
            !.moved = <<>>,
            !.pos0 = w.current_position, !.was0 = w.was_raining]

\* The handler returns to the event loop (or __init__ goes on).
ReturnToLoop(w) ==
  [w EXCEPT !.pc = "idle", !.sent = FALSE,
            !.phase = IF w.phase = "init" THEN "startup" ELSE "loop"]

\* MotorController.move -> _paced_move, up to its first move_to (lines
\* 231-238 and 94-120).
CallMove(w, angle, ret) ==
  [w EXCEPT !.pc = "move1", !.sent = FALSE, !.angle = angle, !.ret = ret,
            !.moved = Append(@, angle)]

\* check_rain_status, lines 758-762: the mail, if none was sent in this
\* rain, then was_raining.
RainTail(w) ==
  IF ~w.already_sent_mail THEN [w EXCEPT !.pc = "mail", !.sent = FALSE]
  ELSE ReturnToLoop([w EXCEPT !.already_sent_mail = TRUE, !.was_raining = TRUE])

\* Lines 781-782.
DryTail(w) ==
  ReturnToLoop([w EXCEPT !.was_raining = FALSE, !.already_sent_mail = FALSE])

\* What follows open_motor or close_motor in the handler that called it.
AfterOpenClose(w) ==
  CASE w.handler = "check_rain_status" /\ w.read = "rain" -> RainTail(w)
    [] w.handler = "check_rain_status" -> DryTail(w)
    [] OTHER -> ReturnToLoop(w)

\* open_motor, lines 663-671.
open_motor(w) ==
  LET w1 == [w EXCEPT !.opens = @ + 1]
  IN  IF ~w1.connected THEN AfterOpenClose(w1)
      ELSE CallMove(w1, -2100, "open_motor")

\* close_motor, lines 673-681.
close_motor(w) ==
  LET w1 == [w EXCEPT !.closes = @ + 1]
  IN  IF ~w1.connected THEN AfterOpenClose(w1)
      ELSE CallMove(w1, -30, "close_motor")

\* _paced_move has returned (its result is not looked at by open_motor and
\* close_motor): lines 670 and 680 set current_position.
AfterMove(w) ==
  CASE w.ret = "open_motor" -> AfterOpenClose([w EXCEPT !.current_position = 90])
    [] w.ret = "close_motor" -> AfterOpenClose([w EXCEPT !.current_position = 0])
    [] OTHER -> ReturnToLoop(w)

\* The rain read has returned (success, message); reading is what the
\* driver found: "failed", "rain" or "dry".  Lines 116-123 at start-up,
\* 724-782 in the timer's slot.
AfterRainRead(w, success, message, reading) ==
  LET raining_now == RainingNow(success, message)
  IN  IF w.handler = "startup"
      THEN LET w1 == [w EXCEPT !.read = reading]
           IN  IF raining_now THEN close_motor(w1) ELSE open_motor(w1)
      ELSE LET w1 == [w EXCEPT !.read = reading, !.prev = w.last,
                               !.last = reading, !.open_btn = ~raining_now]
           IN  IF raining_now
               THEN IF ShouldClose(w1.current_position) THEN close_motor(w1)
                    ELSE RainTail(w1)
               ELSE IF ShouldOpen(w1.was_raining) THEN open_motor(w1)
                    ELSE DryTail(w1)

\* The driver call of the handler has returned: rxb the bytes read, fault
\* as in Faults.
AfterCall(w, rxb, fault) ==
  CASE w.pc = "rain" ->
         AfterRainRead(w, fault = "none" /\ ReadAck(rxb), RainMessage(rxb, fault),
                       IF fault # "none" \/ ~ReadAck(rxb) THEN "failed"
                       ELSE IF IsRaining(rxb) THEN "rain" ELSE "dry")
    [] w.pc = "move1" ->
         IF fault = "none" /\ MoveToAck(rxb) THEN AfterMove(w)
         ELSE [w EXCEPT !.pc = "clear", !.sent = FALSE]
    [] w.pc = "clear" ->
         [w EXCEPT !.pc = "move2", !.sent = FALSE, !.moved = Append(@, w.angle)]
    [] w.pc = "move2" -> AfterMove(w)
    [] w.pc = "stop" -> [w EXCEPT !.pc = "clear0", !.sent = FALSE]
    [] w.pc = "clear0" -> ReturnToLoop([w EXCEPT !.connected = TRUE])

\* The positions at which the handler is inside a MotorDriver method.
InDriver == {"rain", "move1", "clear", "move2", "stop", "clear0"}

\* What the device can answer at a position.
RepliesAt(pc) ==
  CASE pc = "rain" -> RainReplies
    [] pc \in {"move1", "move2"} -> MoveReplies
    [] pc \in {"clear", "clear0"} -> ClearReplies
    [] pc = "stop" -> StopReplies

\* ------------------------------------------------------------ actions
\* MainWindow.__init__, line 560: motor_ctrl.connect() -> _on_connect; and
\* the Connect button (motor_controller.py lines 145-213).  ok: the port
\* could be opened; then stop and clear_alarm are sent (lines 176-190) and
\* _connected is set; else _connected is cleared.
OnConnectClick(ok) ==
  /\ win.pc = "idle" /\ (win.phase = "init" \/ LoopFree(win))
  /\ LET w == StartHandler(win, "_on_connect")
     IN  win' = IF ok THEN [w EXCEPT !.pc = "stop"]
                ELSE ReturnToLoop([w EXCEPT !.connected = FALSE])
  /\ UNCHANGED <<drv, now, mc, mlog, ctl>>
  /\ UNCHANGED acvars

\* MainWindow.__init__, lines 115-125: the start-up rain check.  Without a
\* driver the call raises and the except clause reports it.
StartupRainCheck ==
  /\ win.phase = "startup" /\ win.pc = "idle"
  /\ LET w == StartHandler(win, "startup")
     IN  win' = IF w.connected THEN [w EXCEPT !.pc = "rain", !.phase = "loop"]
                ELSE ReturnToLoop(w)
  /\ UNCHANGED <<drv, now, mc, mlog, ctl>>
  /\ UNCHANGED acvars

\* check_rain_status, the slot of rain_timer, lines 710-725.
RainTimerTick ==
  /\ LoopFree(win)
  /\ LET w == StartHandler(win, "check_rain_status")
     IN  win' = IF w.connected THEN [w EXCEPT !.pc = "rain"] ELSE ReturnToLoop(w)
  /\ UNCHANGED <<drv, now, mc, mlog, ctl>>
  /\ UNCHANGED acvars

\* The Open button (enabled unless the last tick read rain).
OpenClick ==
  /\ LoopFree(win) /\ win.open_btn
  /\ win' = open_motor(StartHandler(win, "open_motor"))
  /\ UNCHANGED <<drv, now, mc, mlog, ctl>>
  /\ UNCHANGED acvars

\* The Close button.
CloseClick ==
  /\ LoopFree(win)
  /\ win' = close_motor(StartHandler(win, "close_motor"))
  /\ UNCHANGED <<drv, now, mc, mlog, ctl>>
  /\ UNCHANGED acvars

\* The Move button, _on_move (motor_controller.py lines 215-228); the
\* button is enabled while connected.
MoveClick(angle) ==
  /\ LoopFree(win) /\ win.connected
  /\ win' = CallMove(StartHandler(win, "_on_move"), angle, "_on_move")
  /\ UNCHANGED <<drv, now, mc, mlog, ctl>>
  /\ UNCHANGED acvars

\* The driver method writes its request, or (fault) a port call raises
\* before that and the method returns its failure.
PortWrite(fault) ==
  /\ win.pc \in InDriver /\ ~win.sent
  /\ win' = IF fault THEN AfterCall(win, <<>>, "before_write")
            ELSE [win EXCEPT !.sent = TRUE, !.wire = TRUE,
                             !.overlap = win.overlap \/ win.wire]
  /\ UNCHANGED <<drv, now, mc, mlog, ctl>>
  /\ UNCHANGED acvars

\* The driver method reads the response (or a port call raises) and
\* returns; the handler runs on to its next driver call or its end.
PortRead(rxb, fault) ==
  /\ win.pc \in InDriver /\ win.sent
  /\ rxb \in RepliesAt(win.pc)
  /\ win' = AfterCall([win EXCEPT !.wire = FALSE, !.sent = FALSE], rxb,
                      IF fault THEN "after_write" ELSE "none")
  /\ UNCHANGED <<drv, now, mc, mlog, ctl>>
  /\ UNCHANGED acvars

\* send_rain_email, lines 683-708, and lines 760-762 after it.
SendRainEmail(ok) ==
  /\ win.pc = "mail"
  /\ win' = ReturnToLoop([win EXCEPT !.mails = @ + 1, !.mail_ok = ok,
                                     !.already_sent_mail = MailDone(ok),
                                     !.was_raining = TRUE])
  /\ UNCHANGED <<drv, now, mc, mlog, ctl>>
  /\ UNCHANGED acvars

NextRain ==
  \/ \E ok \in BOOLEAN : OnConnectClick(ok)
  \/ StartupRainCheck
  \/ RainTimerTick
  \/ OpenClick
  \/ CloseClick
  \/ \E angle \in ClickAngles : MoveClick(angle)
  \/ \E fault \in BOOLEAN : PortWrite(fault)
  \/ \E rxb \in Responses, fault \in BOOLEAN : PortRead(rxb, fault)
  \/ \E ok \in BOOLEAN : SendRainEmail(ok)

SpecRain == ACIdle /\ [][NextRain]_vars


\* ====================================================================
\* Part 6.  Two controller objects of one class, each used by its own
\* thread: ACModbusController (controllers/ac_controller.py) or the
\* dataclass ACController (AC_gui_simplified.py).
\* ====================================================================

ControllerClasses == {"ACModbusController", "ACController"}

\* The lock object self.io_lock names in a new object: __init__ of
\* ACModbusController makes an RLock per object (line 93); the __init__
\* that @dataclass writes for ACController stores the default of the field,
\* the one RLock the class body made (line 89), in every object.
NewIoLock(cls, i) == IF cls = "ACModbusController" THEN i ELSE 0

\* Two objects are constructed; flags_write_addr is None in each (line 92;
\* AC_gui_simplified.py line 88).
NewControllers(cls) ==
  /\ ctl.cls = "none"
  /\ ctl' = [ctl EXCEPT !.cls = cls,
                        !.inst = [i \in {1, 2} |->
                                    [io_lock |-> NewIoLock(cls, i),
                                     flags_write_addr |-> NoAddr]]]
  /\ UNCHANGED <<drv, now, mc, mlog, win>>
  /\ UNCHANGED acvars

\* Thread t comes to `with self.io_lock:` of its object (connect, close,
\* _read_hregs, _write_reg): it enters when the RLock is free or its own.
EnterIoLock(t) ==
  /\ ctl.cls # "none" /\ ctl.th[t].pc \in {"idle", "in"}
  /\ LET l == ctl.inst[t].io_lock
     IN  /\ ctl.locks[l].owner \in {0, t}
         /\ ctl.locks[l].depth < 2
         /\ ctl' = [ctl EXCEPT !.locks[l] = [owner |-> t, depth |-> @.depth + 1],
                               !.th[t].pc = "in"]
  /\ UNCHANGED <<drv, now, mc, mlog, win>>
  /\ UNCHANGED acvars

\* ... and waits when the RLock is held by the other thread.
WaitIoLock(t) ==
  /\ ctl.cls # "none" /\ ctl.th[t].pc = "idle"
  /\ ctl.locks[ctl.inst[t].io_lock].owner \notin {0, t}
  /\ ctl' = [ctl EXCEPT !.th[t].waited = TRUE]
  /\ UNCHANGED <<drv, now, mc, mlog, win>>
  /\ UNCHANGED acvars

\* Inside the lock the thread stores the address it found:
\* _detect_flags_write_address (lines 192-198) or write_flags (line 238).
StoreFlagsWriteAddr(t, addr) ==
  /\ ctl.th[t].pc = "in"
  /\ ctl' = [ctl EXCEPT !.inst[t].flags_write_addr = addr,
                        !.th[t].stored = addr]
  /\ UNCHANGED <<drv, now, mc, mlog, win>>
  /\ UNCHANGED acvars

\* The thread leaves a `with self.io_lock:` block.
LeaveIoLock(t) ==
  /\ ctl.th[t].pc = "in"
  /\ LET l == ctl.inst[t].io_lock
         d == ctl.locks[l].depth - 1
     IN  ctl' = [ctl EXCEPT !.locks[l] = [owner |-> IF d = 0 THEN 0 ELSE t,
                                          depth |-> d],
                            !.th[t].pc = IF d = 0 THEN "idle" ELSE "in"]
  /\ UNCHANGED <<drv, now, mc, mlog, win>>
  /\ UNCHANGED acvars

NextTwo ==
  \/ \E cls \in ControllerClasses : NewControllers(cls)
  \/ \E t \in {1, 2} : EnterIoLock(t)
  \/ \E t \in {1, 2} : WaitIoLock(t)
  \/ \E t \in {1, 2}, addr \in {NoAddr, 4, 6} : StoreFlagsWriteAddr(t, addr)
  \/ \E t \in {1, 2} : LeaveIoLock(t)

SpecTwo == ACIdle /\ [][NextTwo]_vars


\* ================================================================ claims
\* The calls of the current operation made at one place of the code.
CallsAt(site) == SelectSeq(calls, LAMBDA r : r.site = site)

\* write_setpoints_c is the command thread's current or last operation.
InSetpoints == cmd.op = "write_setpoints_c"

\* ... and its entry read of the flags (line 270) was answered.
EntryRead == InSetpoints /\ calls # <<>> /\ calls[1].ok

\* ------------------------------------------------------------------ C1
\* C1: for every input pair whose derived and clamped quad (low =
\* heater-2 in [-20,25], heater in [-5,35], cooling in [20,60], high =
\* cooling+5 in [30,80]) fails low < heater-1 < cooling-1 < high-1,
\* write_setpoints_c raises, the client has received no call, and neither
\* the controller's fields nor the device have changed.
C1_RejectsBeforeIO ==
  LET h == cmd.heater_c
      c == cmd.cooling_c
      lo == IF h - 2 * Q < (-20) * Q THEN (-20) * Q
            ELSE IF h - 2 * Q > 25 * Q THEN 25 * Q ELSE h - 2 * Q
      he == IF h < (-5) * Q THEN (-5) * Q ELSE IF h > 35 * Q THEN 35 * Q ELSE h
      co == IF c < 20 * Q THEN 20 * Q ELSE IF c > 60 * Q THEN 60 * Q ELSE c
      hi == IF c + 5 * Q < 30 * Q THEN 30 * Q
            ELSE IF c + 5 * Q > 80 * Q THEN 80 * Q ELSE c + 5 * Q
  IN  (InSetpoints /\ ~(lo < he - Q /\ he < co - Q /\ co < hi - Q))
      => /\ cmd.pc = "idle" /\ cmd.result = "raised"
         /\ calls = <<>> /\ "cmd" \notin inflight
         /\ client = cmd.client0 /\ flags_write_addr = cmd.fwa0
         /\ io_lock.owner # "cmd"
         /\ devFlags = cmd.flags0 /\ devSet = cmd.set0

\* A rejected pair (heater 21, cooling 22) on a connected controller.
C1_Witness ==
  /\ InSetpoints /\ cmd.heater_c = 21 * Q /\ cmd.cooling_c = 22 * Q
  /\ cmd.result = "raised" /\ client = "open"

\* ------------------------------------------------------------------ C2
\* C2 (as claimed): every flags word this layer sends - by write_flags, for
\* every power_on, force_net and device flags value, and by the flag writes
\* of connect() and write_setpoints_c - has the power bit cleared iff
\* power_on, the keypad-lock bit set and the temperature-unit bit cleared.
C2_EveryFlagsWriteLocked ==
  ("cmd" \in inflight /\ cmd.pc \in {"wf_write", "det_echo"})
  => LET w == IF cmd.pc = "wf_write" THEN cmd.word ELSE cmd.cur
     IN  /\ Bit(w, 10) = 1
         /\ Bit(w, 11) = 0
         /\ cmd.pc = "wf_write" => (Bit(w, 8) = 0 <=> cmd.power_on)

\* C2 (amended): every word that write_flags sends, called by the GUI, by
\* connect() or by write_setpoints_c, has the power bit cleared iff
\* power_on, bit 10 set and bit 11 cleared; the echo write of connect()'s
\* address detection is not such a word (it resends the word just read).
C2_WriteFlagsWordLocked ==
  ("cmd" \in inflight /\ cmd.pc = "wf_write")
  => /\ Bit(cmd.word, 10) = 1
     /\ Bit(cmd.word, 11) = 0
     /\ Bit(cmd.word, 8) = 0 <=> cmd.power_on

\* write_flags(power_on=False), called by write_setpoints_c to restore the
\* bit, has its word on the wire.
C2_Witness ==
  /\ "cmd" \in inflight /\ cmd.pc = "wf_write" /\ cmd.ret = "ws_restore"
  /\ ~cmd.power_on

\* ------------------------------------------------------------------ C3
\* C3: an accepted write_setpoints_c whose entry read is answered and in
\* which no write fails issues exactly four setpoint writes, in the order
\* low-alarm (2), heater (3), cooling (0), high-alarm (1), each with the
\* clamped value times 10 (rounded to the register's 0.1 degree); at every
\* moment the setpoint writes issued are a prefix of that list, so none is
\* written twice or out of order.
C3_FourWritesInOrder ==
  LET h == cmd.heater_c
      c == cmd.cooling_c
      lo == IF h - 2 * Q < (-20) * Q THEN (-20) * Q
            ELSE IF h - 2 * Q > 25 * Q THEN 25 * Q ELSE h - 2 * Q
      he == IF h < (-5) * Q THEN (-5) * Q ELSE IF h > 35 * Q THEN 35 * Q ELSE h
      co == IF c < 20 * Q THEN 20 * Q ELSE IF c > 60 * Q THEN 60 * Q ELSE c
      hi == IF c + 5 * Q < 30 * Q THEN 30 * Q
            ELSE IF c + 5 * Q > 80 * Q THEN 80 * Q ELSE c + 5 * Q
      \* the value times 10, to the nearest register step
      x10(v) == CHOOSE n \in (10 * v) \div Q .. (10 * v) \div Q + 1 :
                  /\ 2 * (n * Q - 10 * v) \in -Q .. Q
                  /\ 2 * (n * Q - 10 * v) \in {-Q, Q} => n % 2 = 0
      want == << <<2, x10(lo)>>, <<3, x10(he)>>, <<0, x10(co)>>, <<1, x10(hi)>> >>
      sent == CallsAt("ws_write")
  IN  InSetpoints =>
        /\ Len(sent) <= 4
        /\ \A i \in 1..Len(sent) :
             sent[i].kind = "w" /\ <<sent[i].addr, sent[i].val>> = want[i]
        /\ \A i \in 1..Len(calls) :
             calls[i].kind = "w" /\ calls[i].addr \in 0..3 => calls[i].site = "ws_write"
        /\ (cmd.pc = "idle" /\ EntryRead
            /\ \A i \in 1..Len(calls) : calls[i].kind = "w" => calls[i].ok)
           => Len(sent) = 4

\* A call that ends with its four writes done, one of them rounded
\* (heater 18.25 -> 182) and one clamped (cooling 70 -> 600).
C3_Witness ==
  /\ InSetpoints /\ cmd.pc = "idle" /\ cmd.result = "ok"
  /\ cmd.heater_c = 18 * Q + 1 /\ cmd.cooling_c = 70 * Q
  /\ Len(CallsAt("ws_write")) = 4

\* ------------------------------------------------------------------ C4
\* C4: from a device state whose setpoint registers are ordered
\* (low < heater < cooling < high), the device state after each single
\* write of an accepted write_setpoints_c still has every adjacent pair
\* ordered.
C4_NoTransientViolation ==
  (InSetpoints
   /\ cmd.set0[2] < cmd.set0[3] /\ cmd.set0[3] < cmd.set0[0]
   /\ cmd.set0[0] < cmd.set0[1])
  => devSet[2] < devSet[3] /\ devSet[3] < devSet[0] /\ devSet[0] < devSet[1]


\* ------------------------------------------------------------------ C5
\* C5: with the remote-setpoints bit (9) read as off at entry, a flags write
\* with bit 9 set has succeeded before the first setpoint write; when the call
\* ends, its last client call is a flags write with bit 9 cleared and the
\* power bit as read at entry (the restore), made after every setpoint write,
\* whether those succeeded or one raised; the call raises iff the forcing
\* write_flags or a setpoint write failed, whatever the restore did.  With
\* the bit read as on at entry, no flags write is issued at all.
C5_ForceAndRestore ==
  LET n == Len(calls)
      setIdx == {i \in 1..n : calls[i].site = "ws_write"}
      flagIdx == {i \in 1..n : calls[i].site = "wf_write"}
      entry == calls[1].val
  IN  EntryRead =>
        IF Bit(entry, 9) = 1
        THEN flagIdx = {}
        ELSE /\ \A i \in setIdx :
                  \E j \in flagIdx : j < i /\ calls[j].ok /\ Bit(calls[j].val, 9) = 1
             /\ cmd.pc = "idle" =>
                  /\ n \in flagIdx
                  /\ Bit(calls[n].val, 9) = 0
                  /\ Bit(calls[n].val, 8) = Bit(entry, 8)
                  /\ \A i \in setIdx : i < n
                  /\ \E j \in flagIdx : j < n /\ Bit(calls[j].val, 9) = 1
                  /\ cmd.result = IF Cardinality(setIdx) = 4
                                     /\ \A i \in setIdx : calls[i].ok
                                  THEN "ok" ELSE "raised"

\* The third setpoint write failed and the restoring write failed too: the
\* restore was attempted, its failure swallowed, the setpoint failure raised.
C5_Witness ==
  /\ EntryRead /\ Bit(calls[1].val, 9) = 0 /\ cmd.pc = "idle"
  /\ Len(CallsAt("ws_write")) = 3 /\ ~CallsAt("ws_write")[3].ok
  /\ ~calls[Len(calls)].ok /\ calls[Len(calls)].site = "wf_write"
  /\ cmd.result = "raised"

\* ------------------------------------------------------------------ C6
\* C6: while an address is remembered in flags_write_addr, every write that
\* write_flags attempts goes to that address, whether it succeeds or fails,
\* and leaves flags_write_addr as it is; and outside connect()'s address
\* detection flags_write_addr changes only when a flags write succeeded, to
\* the address of that write.
C6_Sticky ==
  [][LET n == Len(calls')
         returned == n = Len(calls) + 1
     IN  /\ (flags_write_addr # NoAddr /\ returned /\ calls'[n].site = "wf_write")
            => /\ calls'[n].addr = flags_write_addr
               /\ flags_write_addr' = flags_write_addr
         /\ (flags_write_addr' # flags_write_addr
             /\ cmd.pc \notin {"det_read", "det_echo"})
            => /\ returned /\ calls'[n].site = "wf_write"
               /\ calls'[n].ok /\ calls'[n].addr = flags_write_addr'
    ]_vars

\* write_flags with address 4 remembered: its write to 4 failed, the
\* firmware would have taken the write at 6, and 6 was not tried.
C6_Witness ==
  /\ cmd.op = "write_flags" /\ cmd.pc = "idle" /\ cmd.fwa0 = 4
  /\ wrOK = {4, 6}
  /\ Len(CallsAt("wf_write")) = 1 /\ ~CallsAt("wf_write")[1].ok
  /\ flags_write_addr = 4

\* ------------------------------------------------------------------ C7
\* C7: with an address remembered from the previous session, after close()
\* and a following successful connect() flags_write_addr is what probing
\* found in this session - an address a flags write of this connect()
\* succeeded at, or None after every candidate's echo write failed - and
\* never the value carried over without probing, also when the flags read
\* fails.
C7_ReconnectReprobes ==
  (cmd.op = "connect" /\ cmd.prevop = "close" /\ cmd.pc = "idle"
   /\ cmd.result = "ok" /\ cmd.fwa0 # NoAddr)
  => IF flags_write_addr # NoAddr
     THEN \E i \in 1..Len(calls) :
            calls[i].kind = "w" /\ calls[i].ok /\ calls[i].addr = flags_write_addr
     ELSE \A a \in {4, 6} :
            \E i \in 1..Len(calls) :
              calls[i].site = "det_echo" /\ calls[i].addr = a /\ ~calls[i].ok

\* ------------------------------------------------------------------ C8
\* C8 (as claimed): write_flags raises only if a write to every candidate
\* address (4 and 6) would fail - the firmware does not take it there, or the
\* attempt made there failed - also when a remembered address exists.
C8_RaisesOnlyIfAllFail ==
  (cmd.op = "write_flags" /\ cmd.pc = "idle" /\ cmd.result = "raised"
   /\ client = "open")
  => \A a \in {4, 6} :
       \/ a \notin wrOK
       \/ \E i \in 1..Len(calls) :
            calls[i].kind = "w" /\ calls[i].addr = a /\ ~calls[i].ok

\* C8 (amended): write_flags tries the remembered address alone when there
\* is one, else 4 then 6; it raises only if the write to every address it
\* tries failed, and returns normally only after a write to one of them
\* succeeded.  With a remembered address whose write fails it raises even
\* if the other candidate would accept the write.
C8_RaisesIffTriedFail ==
  LET tried == IF cmd.fwa0 # NoAddr THEN {cmd.fwa0} ELSE {4, 6}
      writes == {i \in 1..Len(calls) : calls[i].kind = "w"}
  IN  (cmd.op = "write_flags" /\ client = "open")
      => /\ \A i \in writes : calls[i].addr \in tried
         /\ (cmd.pc = "idle" /\ cmd.result = "raised")
            => \A a \in tried : \E i \in writes : calls[i].addr = a /\ ~calls[i].ok
         /\ (cmd.pc = "idle" /\ cmd.result = "ok")
            => /\ calls[Len(calls)].kind = "w" /\ calls[Len(calls)].ok
               /\ flags_write_addr = calls[Len(calls)].addr

\* write_flags raised with 4 remembered while the firmware takes writes at 6.
C8_Witness ==
  /\ cmd.op = "write_flags" /\ cmd.pc = "idle" /\ cmd.result = "raised"
  /\ client = "open" /\ cmd.fwa0 = 4 /\ 6 \in wrOK

\* ------------------------------------------------------------------ C9
\* C9 (as claimed): after a successful connect() on a device whose reads
\* and writes work, the flags word has bit 10 set and bit 11 cleared, and
\* every other bit equals its value before connect().
C9_ConnectKeepsOtherBits ==
  (cmd.op = "connect" /\ cmd.pc = "idle" /\ cmd.result = "ok" /\ cmd.steady
   /\ wrOK # {})
  => /\ Bit(devFlags, 10) = 1
     /\ Bit(devFlags, 11) = 0
     /\ \A b \in (0..15) \ {10, 11} : Bit(devFlags, b) = Bit(cmd.flags0, b)

\* C9 (amended): after such a connect() the flags word has bit 10 set, the
\* power bit (8) and the remote-setpoints bit (9) as before connect(), and
\* every other bit, bit 11 included, cleared.
C9_ConnectKeepsPowerAndNet ==
  (cmd.op = "connect" /\ cmd.pc = "idle" /\ cmd.result = "ok" /\ cmd.steady
   /\ wrOK # {})
  => /\ Bit(devFlags, 10) = 1
     /\ Bit(devFlags, 8) = Bit(cmd.flags0, 8)
     /\ Bit(devFlags, 9) = Bit(cmd.flags0, 9)
     /\ \A b \in (0..15) \ {8, 9, 10} : Bit(devFlags, b) = 0

\* connect() done on a device that had bit 3 and bit 11 set, bit 10 clear.
C9_Witness ==
  /\ cmd.op = "connect" /\ cmd.pc = "idle" /\ cmd.result = "ok" /\ cmd.steady
  /\ wrOK # {}
  /\ Bit(cmd.flags0, 3) = 1 /\ Bit(cmd.flags0, 11) = 1 /\ Bit(cmd.flags0, 10) = 0
  /\ Bit(cmd.flags0, 8) = 1

\* ----------------------------------------------------------------- C10
\* C10: under every interleaving of the polling thread (read_sensor_c) and
\* the command thread (write_flags, write_setpoints_c, connect, close), at
\* most one client call is in flight, and the client is never None (cleared
\* by close()) while one is.
C10_OneInFlight ==
  /\ Cardinality(inflight) <= 1
  /\ inflight # {} => client # "none" /\ io_lock.owner \in inflight

\* The poll's call is in flight while the command thread stands before the
\* flags write of write_flags, which has to wait.
C10_Witness ==
  /\ inflight = {"poll"} /\ cmd.pc = "wf_write" /\ cmd.op = "write_flags"

\* ----------------------------------------------------------------- C11
\* The command thread is inside one write_flags call, after the call's
\* flags read (line 222) has returned and before its flags write (line 237)
\* has: top-level, from connect() or from write_setpoints_c.
InWriteFlagsSection == cmd.pc = "wf_write"

\* The command thread is inside write_setpoints_c, after its entry read of
\* the flags (line 270) and before the end of the call (lines 273-280).
InSetpointsSection ==
  cmd.op = "write_setpoints_c" /\ cmd.pc \in {"wf_read", "wf_write", "ws_write"}

\* C11: the flags read, the computing of the word and the flags write of
\* one write_flags call are one critical section, and so is write_setpoints_c
\* from its entry read to its restoring write: no transaction of the polling
\* thread is in flight while the command thread is between the two.
C11_OneCriticalSection ==
  (InWriteFlagsSection \/ InSetpointsSection) => "poll" \notin inflight

\* ----------------------------------------------------------------- C16
\* C16 (as claimed): write_setpoints_c(heater_c=18.0, cooling_c=22.0) is
\* accepted (it is not rejected before I/O: it ends without a client call
\* only when there is no client), derives low = 16.0 and high = 27.0, and
\* its setpoint writes are, in this order, 160 to the low alarm (2), 180 to
\* heater (3), 220 to cooling (0) and 270 to the high alarm (1).
C16_Example18_22 ==
  LET want == << <<2, 160>>, <<3, 180>>, <<0, 220>>, <<1, 270>> >>
      sent == CallsAt("ws_write")
      q == Quad(cmd.heater_c, cmd.cooling_c)
  IN  (InSetpoints /\ cmd.heater_c = 18 * Q /\ cmd.cooling_c = 22 * Q)
      => /\ (cmd.pc = "idle" /\ calls = <<>>) => cmd.client0 = "none"
         /\ q.lo = 16 * Q /\ q.hi = 27 * Q
         /\ Len(sent) <= 4
         /\ \A i \in 1..Len(sent) :
              sent[i].kind = "w" /\ <<sent[i].addr, sent[i].val>> = want[i]
         /\ (cmd.pc = "idle" /\ EntryRead
             /\ \A i \in 1..Len(calls) : calls[i].kind = "w" => calls[i].ok)
            => Len(sent) = 4 /\ cmd.result = "ok"

\* C16 (amended): write_setpoints_c(18.0, 22.0) is accepted and derives
\* low = 16.0 and high = 30.0 (cooling + 5 = 27.0, raised to the lower end
\* of the high alarm's safe range); the setpoint writes issued are always a
\* prefix of 160 to the low alarm (2), 180 to heater (3), 220 to cooling
\* (0), 300 to the high alarm (1), and all four when no call fails.
C16_Example18_22_High30 ==
  LET want == << <<2, 160>>, <<3, 180>>, <<0, 220>>, <<1, 300>> >>
      sent == CallsAt("ws_write")
      q == Quad(cmd.heater_c, cmd.cooling_c)
  IN  (InSetpoints /\ cmd.heater_c = 18 * Q /\ cmd.cooling_c = 22 * Q)
      => /\ (cmd.pc = "idle" /\ calls = <<>>) => cmd.client0 = "none"
         /\ q.lo = 16 * Q /\ q.hi = 30 * Q
         /\ Len(sent) <= 4
         /\ \A i \in 1..Len(sent) :
              sent[i].kind = "w" /\ <<sent[i].addr, sent[i].val>> = want[i]
         /\ (cmd.pc = "idle" /\ EntryRead
             /\ \A i \in 1..Len(calls) : calls[i].kind = "w" => calls[i].ok)
            => Len(sent) = 4 /\ cmd.result = "ok"

\* write_setpoints_c(18.0, 22.0) has ended normally after its fourth write,
\* 300 to the high alarm, on a device that had other setpoints.
C16_Witness ==
  /\ InSetpoints /\ cmd.heater_c = 18 * Q /\ cmd.cooling_c = 22 * Q
  /\ cmd.pc = "idle" /\ cmd.result = "ok"
  /\ Len(CallsAt("ws_write")) = 4 /\ CallsAt("ws_write")[4].val = 300
  /\ devSet = [r \in 0..3 |-> <<220, 300, 160, 180>>[r + 1]]
  /\ cmd.set0 # devSet

\* ----------------------------------------------------------------- C17
\* The standard Modbus CRC-16 as a bit-serial shift register: the register
\* starts at 0xFFFF; for every bit m of the message, the low bit of each
\* byte first, the register is shifted right by one and, if its low bit
\* differed from m, xored with the reflected polynomial 0xA001.  FeedByte
\* is the register after bits k..7 of byte b have gone in.
FeedByte[r \in 0..65535, b \in 0..255, k \in 0..8] ==
  IF k = 8 THEN r
  ELSE FeedByte[IF ((r % 2) + ((b \div 2^k) % 2)) % 2 = 1
                THEN Xor[r \div 2, 40961] ELSE r \div 2, b, k + 1]

\* The register after the bytes lo..hi of data have gone in.
FeedBytes[data \in Seq(0..255), r \in 0..65535, lo \in Nat, hi \in Nat] ==
  IF lo > hi THEN r
  ELSE IF lo = hi THEN FeedByte[r, data[lo], 0]
  ELSE FeedBytes[data, FeedBytes[data, r, lo, (lo + hi) \div 2],
                 ((lo + hi) \div 2) + 1, hi]

StandardCrc16(data) == FeedBytes[data, 65535, 1, Len(data)]

\* C17: modbus_crc16 equals the standard Modbus CRC-16 on every byte
\* sequence it is called with (the bounded set, the driver's own requests),
\* with the catalogue's check value 0x4B37 for "123456789" and the
\* checksums 0x44B8 and 0x87B9 of the two responses quoted in the source;
\* its result lies in 0..0xFFFF; and every frame the driver or the baud
\* probe writes ends with the CRC of all bytes before, low byte first.
C17_StandardCrcOnEveryFrame ==
  /\ drv.op = "modbus_crc16" \/ drv.sent # <<>>
     => /\ drv.crc = StandardCrc16(drv.data)
        /\ drv.crc \in 0..65535
  /\ drv.data = <<49, 50, 51, 52, 53, 54, 55, 56, 57>> => drv.crc = 19255
  /\ drv.data = <<1, 3, 2, 0, 0>> => drv.crc = 17592
  /\ drv.data = <<1, 3, 2, 0, 4>> => drv.crc = 34745
  /\ drv.sent # <<>>
     => LET n == Len(drv.sent)
            std == StandardCrc16(SubSeq(drv.sent, 1, n - 2))
        IN  /\ n >= 3
            /\ drv.data = SubSeq(drv.sent, 1, n - 2)
            /\ drv.sent[n - 1] = std % 256
            /\ drv.sent[n] = std \div 256

\* move_to(-2250) has written its frame of 41 bytes, whose two checksum
\* bytes differ.
C17_Witness ==
  /\ drv.op = "move_to" /\ drv.pc = "sent" /\ drv.angle = -2250
  /\ Len(drv.sent) = 41 /\ drv.sent[40] # drv.sent[41]

\* ----------------------------------------------------------------- C18
\* The last two of the collected bytes are the CRC, low byte first, of the
\* bytes before them.
CrcMatches(resp) ==
  LET n == Len(resp)
      std == StandardCrc16(SubSeq(resp, 1, n - 2))
  IN  n >= 2 /\ resp[n - 1] = std % 256 /\ resp[n] = std \div 256

\* C18: move_to, is_busy and check_rain_status recompute the CRC of a
\* response and compare it with the trailing two bytes: a response whose
\* trailing two bytes are not the CRC of the bytes before them is not
\* accepted (move_to and check_rain_status report failure, is_busy does not
\* take its status from it).
C18_BadCrcNotAccepted ==
  (drv.pc = "idle" /\ drv.op \in {"move_to", "is_busy", "check_rain_status"}
   /\ Len(drv.resp) >= 2 /\ ~CrcMatches(drv.resp))
  => ~drv.ok /\ ~drv.val

\* ----------------------------------------------------------------- C19
\* C19: move_to reports success if and only if the bytes it collected
\* before it stopped reading are at least 3 with the first the slave id (1)
\* and the second 0x10, or start with the bytes 7e 25, or start with the
\* bytes 01 90 04 4d c3; an empty response or any other bytes, and a call
\* ended by an exception of the port, make it report failure.
C19_MoveToSuccessIffAck ==
  LET r == drv.resp
      ack == \/ Len(r) >= 3 /\ r[1] = 1 /\ r[2] = 16
             \/ Len(r) >= 2 /\ r[1] = 126 /\ r[2] = 37
             \/ Len(r) >= 5 /\ SubSeq(r, 1, 5) = <<1, 144, 4, 77, 195>>
  IN  (drv.op = "move_to" /\ drv.pc = "idle")
      => /\ drv.ok <=> (~drv.raised /\ ack)
         /\ drv.ok => drv.sent = Packet(MoveToRequest(drv.angle), drv.crc)

\* move_to has reported success on the answer 01 90 04 4d c3.
C19_Witness ==
  /\ drv.op = "move_to" /\ drv.pc = "idle" /\ drv.ok
  /\ drv.resp = <<1, 144, 4, 77, 195>>

\* ----------------------------------------------------------------- C20
\* C20: move_to, stop, clear_alarm, is_busy and check_rain_status accept a
\* response as success only if its first byte is the address byte of the
\* request and its second byte the request's function code (for move_to
\* also if it starts with 7e 25 or with 01 90 04 4d c3); a response from
\* another address, with another function code, or shorter than the two
\* header bytes is no acknowledgement.
C20_AcceptedOnlyIfHeaderMatches ==
  LET r == drv.resp
  IN  (drv.pc = "idle" /\ drv.ok
       /\ drv.op \in {"move_to", "stop", "clear_alarm", "is_busy",
                      "check_rain_status"})
      => \/ Len(r) >= 2 /\ r[1] = drv.sent[1] /\ r[2] = drv.sent[2]
         \/ /\ drv.op = "move_to"
            /\ \/ Len(r) >= 2 /\ r[1] = 126 /\ r[2] = 37
               \/ Len(r) >= 5 /\ SubSeq(r, 1, 5) = <<1, 144, 4, 77, 195>>

\* ----------------------------------------------------------------- C12
\* The move_to calls of the current paced move, and the places in mlog of
\* its calls named name.
MoveTos == CallsOf("move_to")

Places(name) == {i \in 1..Len(mlog) : mlog[i].call = name}

\* C12: one paced move (the GUI's or the cyclic run's) calls move_to at
\* most twice, each time with the angle it was given; the second call is
\* made only if the first reported failure, and exactly one clear_alarm and
\* a buffer drain lie between the two; clear_alarm is not called when the
\* first move_to succeeded; the paced move ends only after a successful
\* move_to or after the second, and reports what its last move_to reported.
C12_OneRetryAfterClearAlarm ==
  mc.fn \in {GuiMove, ContMove} /\ mc.result # "no_driver"
  => /\ Len(MoveTos) <= 2
     /\ \A i \in 1..Len(MoveTos) : MoveTos[i].angle = mc.angle
     /\ Len(CallsOf("clear_alarm")) <= 1
     /\ Len(MoveTos) >= 1 /\ MoveTos[1].ok
        => Len(MoveTos) = 1 /\ CallsOf("clear_alarm") = <<>>
     /\ Len(MoveTos) = 2
        => /\ ~MoveTos[1].ok
           /\ Len(CallsOf("clear_alarm")) = 1
           /\ \E m1, m2 \in Places("move_to"), c \in Places("clear_alarm"),
                 d \in Places("drain") : m1 < c /\ c < d /\ d < m2
     /\ mc.pc \in {"end", "idle"}
        => /\ Len(MoveTos) >= 1
           /\ MoveTos[Len(MoveTos)].ok \/ Len(MoveTos) = 2
           /\ mc.ok = MoveTos[Len(MoveTos)].ok
           /\ mc.pc = "idle"
              => mc.result = IF MoveTos[Len(MoveTos)].ok THEN "ok" ELSE "failed"

\* A paced move of the GUI has ended with success after a first move_to
\* that failed, one clear_alarm and a retry.
C12_Witness ==
  /\ mc.fn = GuiMove /\ mc.pc = "idle" /\ mc.result = "ok"
  /\ Len(MoveTos) = 2 /\ ~MoveTos[1].ok /\ MoveTos[2].ok
  /\ Len(CallsOf("clear_alarm")) = 1

\* ----------------------------------------------------------------- C15
\* C15: of two consecutive move_to calls made through
\* MotorController._paced_move, the later is made at least the minimum
\* move interval after the earlier.
C15_MinIntervalBetweenMoveTos ==
  mc.fn = GuiMove /\ mc.move_gap # -1 => mc.move_gap >= MIN_MOVE_INTERVAL

\* ----------------------------------------------------------------- C13
\* C13: in _budget_wait_or_stop, when every is_busy() of the budget loop
\* has returned True and the loop is over, stop() has been called exactly
\* once, PER_MOVE_BUDGET or more after the start; when an is_busy() of the
\* budget loop has returned False, the function has returned on that poll:
\* no stop(), no grace loop, no settle.  stop() is never called twice.
C13_StopOnceAfterBudget ==
  /\ mc.stops <= 1
  /\ mc.polled = "busy" /\ mc.pc # "wait_poll"
     => /\ mc.pc # "wait_stop" => mc.stops = 1
        /\ mc.stops = 1 => mc.stop_t - mc.start >= PER_MOVE_BUDGET
        /\ mc.pc = "wait_stop" => now - mc.start >= PER_MOVE_BUDGET
  /\ mc.polled = "busy" /\ mc.pc = "wait_poll" => mc.stops = 0
  /\ mc.polled = "idle"
     => mc.stops = 0 /\ mc.t2 = 0 /\ ~InWait /\ now - mc.start < PER_MOVE_BUDGET + SERIAL_TIMEOUT + PRE_WRITE_SETTLE + POST_WRITE_SETTLE

\* A wait in which the motor stayed busy on every poll of the budget has
\* returned after one stop(), and the closing move is next.
C13_Witness ==
  /\ mc.pc = "call_move" /\ mc.phase = "close"
  /\ mc.polled = "busy" /\ mc.stops = 1 /\ mc.stop_t - mc.start >= PER_MOVE_BUDGET

\* ----------------------------------------------------------------- C14
\* C14: _budget_wait_or_stop always returns, whatever is_busy() and stop()
\* return or raise, and the cyclic run always comes to its end (the cycles
\* done, given up after a failed move, or the port not opened).
C14_WaitReturnsAndRunEnds ==
  /\ [](InWait => <>(~InWait))
  /\ <>(mc.pc = "finished")

\* The run has ended after its last wait found the motor busy on every poll
\* of the budget and of the grace period's start, and stopped it.
C14_Witness ==
  /\ mc.pc = "finished" /\ mc.result = "done"
  /\ mc.polled = "busy" /\ mc.stops = 1
  /\ now - mc.t2 >= GRACE_PERIOD + POST_STOP_SETTLE

\* ----------------------------------------------------------------- C26
\* C26: the word a write_flags(power_on, force_net) call of the GUI puts
\* on the wire of an open client has bit 9 equal to bit 9 of the device's flags when the
\* call was made if force_net is None, and equal to force_net if it is
\* True or False.
C26_NetBitPreservedOrForced ==
  ("cmd" \in inflight /\ cmd.pc = "wf_write" /\ cmd.op = "write_flags"
   /\ client = "open")
  => Bit(cmd.word, BIT_NETWORK_SETPOINTS)
       = CASE cmd.force_net = "None" -> Bit(cmd.flags0, BIT_NETWORK_SETPOINTS)
           [] cmd.force_net = "True" -> 1
           [] cmd.force_net = "False" -> 0

\* ----------------------------------------------------------------- C27
\* C27: after close(), however many close() calls were made in a row and
\* whether or not a client was ever made, client is None, the detected
\* flags address is as it was, the call returned without raising even if
\* the client's own close raised, and the client's close was called at
\* most once over the calls in a row (never without a client).
C27_CloseIdempotent ==
  (cmd.op = "close" /\ cmd.pc = "idle")
  => /\ client = "none"
     /\ cmd.result = "ok"
     /\ flags_write_addr = cmd.fwa0
     /\ cmd.closes <= 1
     /\ (cmd.prevop # "close" /\ cmd.client0 = "none") => cmd.closes = 0

\* close() was called again after a close() in which the client's close
\* raised.
C27_Witness ==
  /\ cmd.op = "close" /\ cmd.pc = "idle" /\ cmd.prevop = "close"
  /\ cmd.closes = 1 /\ cmd.close_raised /\ client = "none"

\* ----------------------------------------------------------------- C21
\* The five methods of MotorDriver that talk to the motor.
DriverMethods == {"move_to", "stop", "clear_alarm", "is_busy", "check_rain_status"}

\* C21: a call of move_to, stop, clear_alarm, is_busy or check_rain_status
\* never ends with an exception leaving the method; a call in which the
\* port could not be opened or a port call raised returns failure, and
\* is_busy then returns False.
C21_DriverNeverRaises ==
  (drv.pc = "idle" /\ drv.op \in DriverMethods)
  => /\ ~drv.escaped
     /\ drv.raised => (~drv.ok /\ ~drv.val)

\* is_busy read a "moving" answer and a port call raised after it.
C21_Witness ==
  /\ drv.pc = "idle" /\ drv.op = "is_busy" /\ drv.raised /\ ~drv.val
  /\ Len(drv.resp) >= 5 /\ drv.resp[1] = 1 /\ drv.resp[2] = 3 /\ drv.resp[5] = 1

\* ----------------------------------------------------------------- C22
\* C22: a check_rain_status call in which no port call raised reports
\* success exactly when the response has at least 5 bytes and starts with
\* the slave id and 0x03; it then says 'Raining' exactly when bit 2 of the
\* fifth byte is set, whatever the other bits are.
C22_RainBit ==
  LET r == drv.resp
      valid == Len(r) >= 5 /\ r[1] = 1 /\ r[2] = 3
  IN  (drv.pc = "idle" /\ drv.op = "check_rain_status" /\ ~drv.raised
       /\ drv.sent # <<>>)
      => /\ drv.ok <=> valid
         /\ drv.val <=> (valid /\ (r[5] \div 4) % 2 = 1)

\* 'Not raining' was reported for a value with every bit set but bit 2.
C22_Witness ==
  /\ drv.pc = "idle" /\ drv.op = "check_rain_status" /\ drv.ok /\ ~drv.val
  /\ Len(drv.resp) >= 5 /\ drv.resp[4] = 255 /\ drv.resp[5] = 251

\* ----------------------------------------------------------------- C23
\* C23: on a port object without automatic RS-485 direction switching,
\* every request of move_to, stop, clear_alarm, is_busy and
\* check_rain_status is written with RTS raised, and RTS is low again
\* once the write is done.
C23_RtsAroundEveryWrite ==
  (drv.op \in DriverMethods /\ drv.sent # <<>> /\ ~drv.rs485_mode)
  => drv.rts_tx /\ ~drv.rts

\* ----------------------------------------------------------------- C24
\* C24: a call of a driver method that finds the port closed leaves it
\* closed and reports failure.
C24_NoAutomaticReopen ==
  (drv.op \in DriverMethods /\ ~drv.open0)
  => ~drv.is_open /\ ~drv.ok

\* ----------------------------------------------------------------- C28
\* The frame of move_to(0) before its CRC: header, 8 fixed bytes, angle,
\* speed 1000, 8 fixed bytes, current 1000, 4 fixed bytes.
C28_FrameOfZero ==
  <<1, 16, 0, 88, 0, 16, 32,
    0, 0, 0, 0, 0, 0, 0, 1,
    0, 0, 0, 0,
    0, 0, 3, 232,
    0, 15, 31, 64, 0, 15, 31, 64,
    0, 0, 3, 232,
    0, 0, 0, 1>>

\* C28: the frame move_to writes for an angle in -2^31..2^31-1 has
\* 7 + 32 + 2 bytes, byte count 0x20 = 2 * register count 0x0010 = the
\* number of payload bytes, the angle in bytes 16..19 as big-endian two's
\* complement, and every other byte before the CRC as in the frame of any
\* other angle; for an angle outside that range nothing is written and
\* failure is returned.
C28_MoveToFrameShape ==
  LET f == drv.sent
      u == (f[16] % 128) * 16777216 + f[17] * 65536 + f[18] * 256 + f[19]
  IN  drv.op = "move_to"
      => /\ (drv.wraps = 0 /\ f # <<>>)
            => /\ Len(f) = 7 + 32 + 2
               /\ f[7] = 32 /\ f[5] * 256 + f[6] = 16
               /\ f[7] = 2 * (f[5] * 256 + f[6])
               /\ f[7] = Len(f) - 7 - 2
               /\ drv.angle = IF f[16] >= 128 THEN u - 2147483647 - 1 ELSE u
               /\ \A i \in (1..39) \ (16..19) : f[i] = C28_FrameOfZero[i]
         /\ drv.wraps # 0
            => /\ f = <<>> /\ drv.pc = "idle"
               /\ drv.raised /\ ~drv.ok /\ ~drv.escaped

\* The frame for the lowest angle, -2^31, is on the wire.
C28_Witness ==
  /\ drv.op = "move_to" /\ drv.pc = "sent" /\ drv.wraps = 0
  /\ drv.angle = -2147483647 - 1
  /\ SubSeq(drv.sent, 16, 19) = <<128, 0, 0, 0>>

\* ----------------------------------------------------------------- C29
\* C29: when the first is_busy() of _budget_wait_or_stop returns False
\* because the port failed or no valid answer came, the wait returns at
\* that poll, before the budget is over and without a stop(); the cyclic
\* run goes on to its next move_to, to the opposite end, and no stop() is
\* sent between the failed poll and that move_to.
C29_LostLinkReversesWithoutStop ==
  mc.lost >= 0
  => /\ mc.lost = 0
     /\ mc.pc \notin {"wait_poll", "wait_stop", "grace_poll", "settle"}
     /\ mc.pc = "wait_ret"
        => /\ mc.stops = 0 /\ mc.polled = "idle"
           /\ now - mc.start < PER_MOVE_BUDGET
     /\ mc.lost_angle \in {OPEN_ANGLE, CLOSE_ANGLE}
     /\ \A i \in 1..Len(mlog) :
          /\ mlog[i].call # "stop"
          /\ mlog[i].call = "move_to"
             => /\ mlog[i].angle \in {OPEN_ANGLE, CLOSE_ANGLE}
                /\ mlog[i].angle # mc.lost_angle

\* After a first poll that failed during the closing move, the opening
\* move_to has been written.
C29_Witness ==
  /\ mc.lost = 0 /\ mc.lost_angle = CLOSE_ANGLE
  /\ Len(mlog) = 2 /\ mlog[2].call = "move_to" /\ mlog[2].sent
  /\ mlog[2].angle = OPEN_ANGLE

\* ----------------------------------------------------------------- C30
\* The commands among the recorded calls.
C30_Commands == {"move_to", "clear_alarm", "stop"}

\* C30: every move_to of a paced move, the first and the retry, comes
\* after a drain made since the command before it (since the paced move
\* began, for the first), starts at least the inter-command gap after that
\* command returned (after the paced move began), and begins to read with
\* no unread byte of an earlier response in the input buffer.
C30_DrainAndGapBeforeMoveTo ==
  \A i \in 1..Len(mlog) :
    mlog[i].call = "move_to"
    => LET before == {j \in 1..(i - 1) : mlog[j].call \in C30_Commands}
           prev == IF before = {} THEN 0
                   ELSE CHOOSE j \in before : \A k \in before : k <= j
           since == IF prev = 0 THEN StartTime ELSE mlog[prev].end
       IN  /\ \E k \in (prev + 1)..(i - 1) : mlog[k].call = "drain"
           /\ mlog[i].t - since >= INTER_CMD_GAP
           /\ ~mlog[i].dirty

\* The retry was written after a clear_alarm whose response stayed unread
\* and a drain that removed it.
C30_Witness ==
  /\ mc.fn \in {GuiMove, ContMove}
  /\ Len(mlog) = 5
  /\ mlog[3].call = "clear_alarm" /\ mlog[3].left
  /\ mlog[4].call = "drain" /\ mlog[4].ok /\ ~mlog[4].left
  /\ mlog[5].call = "move_to" /\ mlog[5].sent

\* ----------------------------------------------------------------- C25
\* C25: a timer run of the poll callback (_update_temp, _do_refresh_loop)
\* that gets to read the sensor always returns normally and leaves the
\* 5-second poll scheduled; if read_sensor_c raised, the label shows the
\* sentinel text and the stored temperature is what it was; if it
\* returned, the label shows the value read, signed and in 0.1 degree, and
\* ACController stores it, also after earlier failures.
C25_PollFailureKeepsPolling ==
  [][ (/\ poll'.ticks = poll.ticks + 1
       /\ IF poll.gui = "ACController" THEN poll.connected ELSE client # "none")
      => LET t == IF poll'.raw >= 32768 THEN poll'.raw - 65536 ELSE poll'.raw
             a == IF t < 0 THEN -t ELSE t
         IN  /\ ~poll'.escaped
             /\ poll'.timer
             /\ poll'.last \in {"ok", "failed"}
             /\ poll'.last = "failed"
                => /\ poll'.label = <<"--.-">>
                   /\ poll'.latest_temp = poll.latest_temp
             /\ poll'.last = "ok"
                => /\ poll'.label = <<IF t < 0 THEN "-" ELSE "", a \div 10, a % 10>>
                   /\ poll.gui = "ACController" => poll'.latest_temp = t
    ]_vars

\* After a read that failed, a later timer run read -10.0 degrees and
\* ACController stored it.
C25_Witness ==
  /\ poll.gui = "ACController" /\ poll.ticks >= 2 /\ poll.failed_before
  /\ poll.last = "ok" /\ poll.raw = 65436 /\ poll.latest_temp = -100
  /\ poll.label = <<"-", 10, 0>> /\ poll.timer

\* ----------------------------------------------------------------- C38
\* C38: on a port object without rs485_mode, RTS is low whenever move_to
\* has returned, whether the move was acknowledged, not acknowledged, or a
\* port call raised inside it.
C38_RtsLowAfterMoveTo ==
  (drv.op = "move_to" /\ drv.pc = "idle" /\ ~drv.rs485_mode)
  => ~drv.rts

\* ----------------------------------------------------------------- C39
\* C39: in run_motor_cycle an open or close move that failed is never
\* waited for or followed by another move: the run calls clear_alarm and
\* stop and ends, with no move_to after the failed one; and whenever the
\* run has ended (done, aborted, or the port could not be made) the port it
\* opened is not open.
C39_FailedMoveEndsRunPortClosed ==
  mc.fn = "run_motor_cycle"
  => /\ (mc.pc \in {"wait_poll", "wait_stop", "grace_poll", "settle", "wait_ret"}
         /\ mc.phase \in {"open", "close"})
        => mc.ok
     /\ mc.pc = "abort" => (~mc.ok /\ mc.phase \in {"open", "close"})
     /\ mc.result = "aborted"
        => /\ mc.pc = "finished" /\ ~mc.ok
           /\ Len(mlog) = 2
           /\ mlog[1].call = "clear_alarm" /\ mlog[2].call = "stop"
     /\ mc.pc = "finished" => mc.port # "open"

\* The closing move of the cycle failed; the run has ended and its port is
\* closed.
C39_Witness ==
  /\ mc.fn = "run_motor_cycle" /\ mc.pc = "finished" /\ mc.result = "aborted"
  /\ mc.phase = "close" /\ mc.port = "closed"

TickEnded ==
  win.handler = "check_rain_status" /\ win.pc = "idle" /\ win.read # "none"

\* Every move_to of the current or last handler went to the angle.
MovedOnlyTo(angle) == \A i \in 1..Len(win.moved) : win.moved[i] = angle

\* C33: a tick whose rain read failed ends as one that read 'Not raining':
\* Open button enabled, was_raining and already_sent_mail cleared, no mail,
\* no close, and, when was_raining was set, open_motor called once with its
\* move to -2100 and current_position 90 (else no move at all); and the
\* start-up check opens the cover after a failed read as after a dry one.
C33_FailedReadHandledAsDry ==
  /\ (TickEnded /\ win.read \in {"failed", "dry"})
     => /\ win.open_btn /\ ~win.was_raining /\ ~win.already_sent_mail
        /\ win.mails = 0 /\ win.closes = 0
        /\ IF win.was0
           THEN /\ win.opens = 1 /\ win.moved # <<>> /\ MovedOnlyTo(-2100)
                /\ win.current_position = 90
           ELSE /\ win.opens = 0 /\ win.moved = <<>>
                /\ win.current_position = win.pos0
  /\ (win.handler = "startup" /\ win.pc = "idle" /\ win.read \in {"failed", "dry"})
     => /\ win.opens = 1 /\ win.closes = 0
        /\ win.moved # <<>> /\ MovedOnlyTo(-2100)
        /\ win.current_position = 90

\* During rain (the tick before read rain, the cover commanded shut) one
\* read failed, and the tick has sent the cover open.
C33_Witness ==
  /\ TickEnded /\ win.read = "failed" /\ win.prev = "rain"
  /\ win.was0 /\ win.pos0 = 0
  /\ win.moved = <<-2100>> /\ win.current_position = 90

\* C34: in a tick that read rain no open_motor is called and every move_to
\* goes to -30; when the tick has ended, the cover was commanded shut
\* (close_motor once, a move_to(-30), current_position 0) if
\* current_position was 90, nothing was moved and current_position is as
\* before if it was None or 0, and current_position is not 90.
C34_RainTickCloses ==
  (win.handler = "check_rain_status" /\ win.read = "rain")
  => /\ win.opens = 0 /\ MovedOnlyTo(-30)
     /\ win.pc = "idle"
        => /\ IF win.pos0 = 90
              THEN /\ win.closes = 1 /\ win.moved # <<>>
                   /\ win.current_position = 0
              ELSE /\ win.closes = 0 /\ win.moved = <<>>
                   /\ win.current_position = win.pos0
           /\ win.current_position # 90

\* A tick read rain with the cover commanded open; the first move_to(-30)
\* was not acknowledged, the retry was made, current_position is 0.
C34_Witness ==
  /\ TickEnded /\ win.read = "rain" /\ win.pos0 = 90
  /\ win.moved = <<-30, -30>> /\ win.current_position = 0

\* C35: a tick that did not read rain calls open_motor once when the tick
\* before it read rain, whatever current_position was, and not at all when
\* the tick before it did not read rain either.
C35_ReopenOnce ==
  (TickEnded /\ win.read \in {"failed", "dry"})
  => /\ win.prev = "rain" => (win.opens = 1 /\ win.moved # <<>> /\ MovedOnlyTo(-2100))
     /\ win.prev # "rain" => (win.opens = 0 /\ win.moved = <<>>)

\* The second dry tick after rain: the cover, shut by hand in between, is
\* left alone.
C35_Witness ==
  /\ TickEnded /\ win.read = "dry" /\ win.prev = "dry"
  /\ win.current_position = 0 /\ win.opens = 0 /\ ~win.mail_ok

\* C36: send_rain_email is called by a tick that read rain when the tick
\* before it did not, also after a send that failed, and by no other tick
\* or handler.
C36_OneMailPerRain ==
  /\ TickEnded
     => win.mails = IF win.read = "rain" /\ win.prev # "rain" THEN 1 ELSE 0
  /\ win.handler # "check_rain_status" => win.mails = 0
  /\ win.mails <= 1

\* The second rain tick in a row, after a send that failed: no mail.
C36_Witness ==
  /\ TickEnded /\ win.read = "rain" /\ win.prev = "rain"
  /\ ~win.mail_ok /\ win.mails = 0

\* ----------------------------------------------------------------- C32
\* C32: no driver method of a GUI handler writes its request while the
\* response to a request written before is still to be read: the port
\* carries a request exactly while the running handler's driver method is
\* between its write and its read.
C32_NoInterleavedTransactions ==
  /\ ~win.overlap
  /\ win.wire <=> (win.sent /\ win.pc \in InDriver)

\* The automatic close of a rain tick has its move_to on the port, after
\* the tick's rain read was answered.
C32_Witness ==
  /\ win.handler = "check_rain_status" /\ win.read = "rain"
  /\ win.pc = "move1" /\ win.wire /\ ~win.overlap

\* ----------------------------------------------------------------- C31
\* C31: of two controller objects of one class, a thread never has to wait
\* at its object's lock while the thread of the other object is inside
\* that object's lock, and an object's flags_write_addr is what its own
\* thread stored last.
C31_InstancesShareNothing ==
  ctl.cls # "none"
  => \A t \in {1, 2} :
       /\ ~ctl.th[t].waited
       /\ ctl.inst[t].flags_write_addr = ctl.th[t].stored

============================================================================
